---------------------------- MODULE Spec2Model ----------------------------
(***************************************************************************)
(* kaiseki: literate-programming tangler.                                  *)
(*                                                                         *)
(* The model follows src/src/lib.rs (tangle_output and the output          *)
(* assembly), src/src/parsing.rs (the anchor lexer and parser) and         *)
(* src/src/list.rs (the pointer based doubly-linked list).                 *)
(*                                                                         *)
(* Text is a sequence of one-character strings, so that the regular        *)
(* expressions of the program can be evaluated character by character.     *)
(***************************************************************************)
EXTENDS Integers, Sequences, FiniteSets, TLC

\* --------------------------------------------------------------------------
\* Bounds of the model
\* --------------------------------------------------------------------------

\* Largest number of input streams handed to tangle_output.
MaxStreams == 2

\* Largest total number of lines of an input built from the whole line pool.
MaxLines == 2

\* Largest number of directive+line units of the second stream of a
\* "unit" input (see UnitInput).
MaxUnits == 3

\* Largest total number of lines of an "insert" input (see InsertInput).
MaxInsertLines == 4

\* Largest number of nodes the list operations exercised on their own
\* allocate in one run (see ListSpec).
MaxNodes == 4

\* Largest number of token texts a text handed to parse is put together from
\* (see GrammarSpec).
MaxTokens == 4

\* Largest number of pieces a line handed to might_be_anchor is put together
\* from (see GrammarSpec).
MaxPieces == 4

\* --------------------------------------------------------------------------
\* Characters and text
\* --------------------------------------------------------------------------

None == "None"

\* \s of the regex crate, restricted to the characters the line pool uses.
Whitespace == {" ", "\t"}

\* \w and \d of the regex crate, restricted to the characters the line pool uses.
WordChars ==
  {"a", "b", "c", "d", "e", "f", "g", "h", "i", "j", "k", "l", "m", "n", "o",
   "p", "q", "r", "s", "t", "u", "v", "w", "x", "y", "z", "B", "A", "_",
   "0", "1", "2", "3", "4", "5", "6", "7", "8", "9"}

\* The character class [\w\d\s\-] of the argument token.
ArgChars == WordChars \cup Whitespace \cup {"-"}

\* s[from..] (1-based), the rest of a text.
Drop(s, n) == SubSeq(s, n + 1, Len(s))

\* TRUE iff text s starts with text p.
StartsWith(s, p) == Len(s) >= Len(p) /\ SubSeq(s, 1, Len(p)) = p

\* iter::repeat(' ').take(n).collect::<String>()
RECURSIVE Spaces(_)
Spaces(n) == IF n = 0 THEN <<>> ELSE <<" ">> \o Spaces(n - 1)

Digit(d) == <<"0", "1", "2", "3", "4", "5", "6", "7", "8", "9">>[d + 1]

\* The decimal rendering of a usize by format!("{}", n).
RECURSIVE FormatUsize(_)
FormatUsize(n) ==
  IF n < 10 THEN <<Digit(n)>> ELSE FormatUsize(n \div 10) \o <<Digit(n % 10)>>

\* --------------------------------------------------------------------------
\* parsing.rs
\* --------------------------------------------------------------------------

\* Length of the match of the regex ##\[[^]]+\] starting exactly at
\* position i of line, 0 when it does not match there.
AnchorMatchLen(line, i) ==
  IF /\ i + 3 <= Len(line)
     /\ line[i] = "#" /\ line[i + 1] = "#" /\ line[i + 2] = "["
     /\ line[i + 3] # "]"
     /\ \E j \in (i + 4)..Len(line) : line[j] = "]"
  THEN LET close == CHOOSE j \in (i + 4)..Len(line) :
                      /\ line[j] = "]"
                      /\ \A k \in (i + 4)..(j - 1) : line[k] # "]"
       IN  close - i + 1
  ELSE 0

\* might_be_anchor returning the rightmost match in the line.
might_be_anchor_last(line) ==
  LET starts == {i \in 1..Len(line) : AnchorMatchLen(line, i) > 0}
  IN  IF starts = {}
      THEN [found |-> FALSE, start |-> 0, text |-> <<>>]
      ELSE LET i == CHOOSE s \in starts : \A t \in starts : s >= t
           IN  [found |-> TRUE, start |-> i,
                text |-> SubSeq(line, i, i + AnchorMatchLen(line, i) - 1)]

\* parsing::might_be_anchor: the leftmost match of ##\[[^]]+\] in the line.
might_be_anchor(line) ==
  LET starts == {i \in 1..Len(line) : AnchorMatchLen(line, i) > 0}
  IN  IF starts = {}
      THEN [found |-> FALSE, start |-> 0, text |-> <<>>]
      ELSE LET i == CHOOSE s \in starts : \A t \in starts : s <= t
           IN  [found |-> TRUE, start |-> i,
                text |-> SubSeq(line, i, i + AnchorMatchLen(line, i) - 1)]

Token(type, op, arg) == [type |-> type, op |-> op, arg |-> arg]

TokenNull == Token("Null", None, <<>>)

\* Number of leading characters of s that belong to the class cls.
RECURSIVE RunLen(_, _)
RunLen(s, cls) ==
  IF s # <<>> /\ Head(s) \in cls THEN 1 + RunLen(Tail(s), cls) ELSE 0

\* matched.end() of the regex ^\([\w\d\s\-]+\) on chars, 0 for no match.
ArgMatchEnd(chars) ==
  IF chars # <<>> /\ Head(chars) = "("
  THEN LET run == RunLen(Tail(chars), ArgChars)
       IN  IF run >= 1 /\ Len(chars) >= run + 2 /\ chars[run + 2] = ")"
           THEN run + 2
           ELSE 0
  ELSE 0

\* matched.end() of a literal pattern ^lit on chars, 0 for no match.
LitMatchEnd(chars, lit) == IF StartsWith(chars, lit) THEN Len(lit) ELSE 0

\* The lexers of lex_tokens in their order: the end of the match of the
\* i-th pattern on chars and the token its closure produces.
Lexers(chars) ==
  << [end |-> LitMatchEnd(chars, <<"#", "#", "[">>),
      token |-> Token("AnchorStart", None, <<>>)],
     [end |-> LitMatchEnd(chars, <<"]">>),
      token |-> Token("AnchorEnd", None, <<>>)],
     [end |-> LitMatchEnd(chars, <<"b", "e", "f", "o", "r", "e">>),
      token |-> Token("AnchorOp", "Before", <<>>)],
     [end |-> LitMatchEnd(chars, <<"a", "f", "t", "e", "r">>),
      token |-> Token("AnchorOp", "After", <<>>)],
     [end |-> LitMatchEnd(chars, <<"i", "n", "s", "e", "r", "t">>),
      token |-> Token("AnchorOp", "Insert", <<>>)],
     [end |-> LitMatchEnd(chars, <<"l", "a", "b", "e", "l">>),
      token |-> Token("AnchorOp", "Label", <<>>)],
     [end |-> ArgMatchEnd(chars),
      token |-> Token("AnchorOpArg", None, SubSeq(chars, 1, ArgMatchEnd(chars)))] >>

\* The inner for loop of the lexer! macro: the longest match, the first
\* pattern winning among equally long ones.
RECURSIVE MaxMatch(_, _, _)
MaxMatch(lexers, i, best) ==
  IF i > Len(lexers) THEN best
  ELSE IF lexers[i].end > best.max_match
       THEN MaxMatch(lexers, i + 1,
                     [max_match |-> lexers[i].end, max_token |-> lexers[i].token])
       ELSE MaxMatch(lexers, i + 1, best)

\* The while loop of the lexer! macro.
RECURSIVE LexLoop(_, _)
LexLoop(chars, tokens) ==
  IF chars = <<>> THEN [ok |-> TRUE, tokens |-> tokens]
  ELSE LET m == MaxMatch(Lexers(chars), 1,
                         [max_match |-> 0, max_token |-> TokenNull])
       IN  IF m.max_match = 0
           THEN [ok |-> FALSE, tokens |-> <<>>]
           ELSE LexLoop(Drop(chars, m.max_match), Append(tokens, m.max_token))

\* parsing::lex_tokens
lex_tokens(chars) == LexLoop(chars, <<>>)

AnchorValue(op, label) == [op |-> op, label |-> label]

ParseErr == [ok |-> FALSE, anchor |-> AnchorValue(None, <<>>), rest |-> <<>>]

\* parsing::parse_end: the next token must be AnchorEnd.
parse_end(tokens) ==
  IF tokens # <<>> /\ Head(tokens).type = "AnchorEnd"
  THEN [ok |-> TRUE, rest |-> Tail(tokens)]
  ELSE [ok |-> FALSE, rest |-> <<>>]

\* parse_arg handing out the argument without its parentheses.
parse_arg_bare(tokens) ==
  IF tokens # <<>> /\ Head(tokens).type = "AnchorOpArg"
  THEN [ok |-> TRUE,
        arg |-> SubSeq(Head(tokens).arg, 2, Len(Head(tokens).arg) - 1),
        rest |-> Tail(tokens)]
  ELSE [ok |-> FALSE, arg |-> <<>>, rest |-> <<>>]

\* parsing::parse_arg: the next token must be an AnchorOpArg.
parse_arg(tokens) ==
  IF tokens # <<>> /\ Head(tokens).type = "AnchorOpArg"
  THEN [ok |-> TRUE, arg |-> Head(tokens).arg, rest |-> Tail(tokens)]
  ELSE [ok |-> FALSE, arg |-> <<>>, rest |-> <<>>]

\* parsing::parse_op
parse_op(tokens) ==
  IF tokens = <<>> \/ Head(tokens).type # "AnchorOp" THEN ParseErr
  ELSE IF Head(tokens).op = "Insert"
       THEN LET e == parse_end(Tail(tokens))
            IN  IF e.ok
                THEN [ok |-> TRUE, anchor |-> AnchorValue("Insert", <<>>), rest |-> e.rest]
                ELSE ParseErr
       ELSE LET a == parse_arg(Tail(tokens))
                e == parse_end(a.rest)
            IN  IF a.ok /\ e.ok
                THEN [ok |-> TRUE, anchor |-> AnchorValue(Head(tokens).op, a.arg),
                      rest |-> e.rest]
                ELSE ParseErr

\* parsing::parse_anchor
parse_anchor(tokens) ==
  IF tokens # <<>> /\ Head(tokens).type = "AnchorStart"
  THEN parse_op(Tail(tokens))
  ELSE ParseErr

\* parsing::parse
parse(text) ==
  LET lex_result == lex_tokens(text)
  IN  IF lex_result.ok THEN parse_anchor(lex_result.tokens) ELSE ParseErr

\* lib.rs indentation_level: index of the first non-whitespace character.
indentation_level(line) ==
  LET nonws == {i \in 1..Len(line) : line[i] \notin Whitespace}
  IN  IF nonws = {} THEN 0
      ELSE (CHOOSE i \in nonws : \A j \in nonws : i <= j) - 1

\* --------------------------------------------------------------------------
\* list.rs: the doubly-linked list, on a heap of nodes
\* --------------------------------------------------------------------------

\* Option<*mut Node<T>>::None
Null == 0

\* The heap of boxed nodes: nodes maps the address of every live node to
\* Node { to_f, to_b, data }; next is the address Box::new hands out next.
EmptyHeap == [nodes |-> <<>>, next |-> 1]

\* struct List { front, back, len }
ListValue(front, back, len) == [front |-> front, back |-> back, len |-> len]

\* List::new
List_new == ListValue(Null, Null, 0)

\* List::is_empty
is_empty(self) == self.len = 0

\* Box::into_raw(Box::new(node)): a node at a fresh address.
Alloc(h, node) == [nodes |-> h.nodes @@ (h.next :> node), next |-> h.next + 1]

\* Box::from_raw(p) going out of scope: the node at p is freed.
Free(h, p) ==
  [nodes |-> [q \in (DOMAIN h.nodes) \ {p} |-> h.nodes[q]], next |-> h.next]

\* List::push_front linking the new node at the back.
push_front_at_back(h, self, element) ==
  LET node_ptr == h.next
      h1 == Alloc(h, [to_f |-> self.back, to_b |-> Null, data |-> element])
  IN  IF self.back = Null
      THEN [heap |-> h1, self |-> ListValue(node_ptr, node_ptr, self.len + 1)]
      ELSE [heap |-> [h1 EXCEPT !.nodes[self.back].to_b = node_ptr],
            self |-> ListValue(self.front, node_ptr, self.len + 1)]

\* List::push_front
push_front(h, self, element) ==
  LET node_ptr == h.next
      h1 == Alloc(h, [to_f |-> Null, to_b |-> self.front, data |-> element])
  IN  IF self.front = Null
      THEN [heap |-> h1, self |-> ListValue(node_ptr, node_ptr, self.len + 1)]
      ELSE [heap |-> [h1 EXCEPT !.nodes[self.front].to_f = node_ptr],
            self |-> ListValue(node_ptr, self.back, self.len + 1)]

\* List::push_back
push_back(h, self, element) ==
  LET node_ptr == h.next
      h1 == Alloc(h, [to_f |-> self.back, to_b |-> Null, data |-> element])
  IN  IF self.back = Null
      THEN [heap |-> h1, self |-> ListValue(node_ptr, node_ptr, self.len + 1)]
      ELSE [heap |-> [h1 EXCEPT !.nodes[self.back].to_b = node_ptr],
            self |-> ListValue(self.front, node_ptr, self.len + 1)]

\* List::pop_front that does not tell the last node from the others: back
\* is left pointing at the node freed.
pop_front_stale_back(h, self) ==
  IF self.front = Null
  THEN [heap |-> h, self |-> self, some |-> FALSE, data |-> None]
  ELSE LET node == h.nodes[self.front]
           h1 == Free(h, self.front)
       IN  [heap |-> IF node.to_b = Null THEN h1
                     ELSE [h1 EXCEPT !.nodes[node.to_b].to_f = Null],
            self |-> ListValue(node.to_b, self.back, self.len - 1),
            some |-> TRUE, data |-> node.data]

\* List::pop_front
pop_front(h, self) ==
  IF self.front = Null
  THEN [heap |-> h, self |-> self, some |-> FALSE, data |-> None]
  ELSE LET node == h.nodes[self.front]
           h1 == Free(h, self.front)
       IN  IF node.to_b = Null
           THEN [heap |-> h1,
                 self |-> ListValue(node.to_b, Null, self.len - 1),
                 some |-> TRUE, data |-> node.data]
           ELSE [heap |-> [h1 EXCEPT !.nodes[node.to_b].to_f = Null],
                 self |-> ListValue(node.to_b, self.back, self.len - 1),
                 some |-> TRUE, data |-> node.data]

\* List::pop_back that leaves len as it is.
pop_back_same_len(h, self) ==
  IF self.back = Null
  THEN [heap |-> h, self |-> self, some |-> FALSE, data |-> None]
  ELSE LET node == h.nodes[self.back]
           h1 == Free(h, self.back)
       IN  IF node.to_f = Null
           THEN [heap |-> h1,
                 self |-> ListValue(Null, node.to_f, self.len),
                 some |-> TRUE, data |-> node.data]
           ELSE [heap |-> [h1 EXCEPT !.nodes[node.to_f].to_b = Null],
                 self |-> ListValue(self.front, node.to_f, self.len),
                 some |-> TRUE, data |-> node.data]

\* List::pop_back
pop_back(h, self) ==
  IF self.back = Null
  THEN [heap |-> h, self |-> self, some |-> FALSE, data |-> None]
  ELSE LET node == h.nodes[self.back]
           h1 == Free(h, self.back)
       IN  IF node.to_f = Null
           THEN [heap |-> h1,
                 self |-> ListValue(Null, node.to_f, self.len - 1),
                 some |-> TRUE, data |-> node.data]
           ELSE [heap |-> [h1 EXCEPT !.nodes[node.to_f].to_b = Null],
                 self |-> ListValue(self.front, node.to_f, self.len - 1),
                 some |-> TRUE, data |-> node.data]

\* List::append_front that copies other into an empty self instead of
\* swapping the two.
append_front_copy(h, self, other) ==
  IF other.back = Null
  THEN [heap |-> h, self |-> self, other |-> other]
  ELSE IF self.front = Null
       THEN [heap |-> h, self |-> other, other |-> other]
       ELSE [heap |-> [h EXCEPT !.nodes[self.front].to_f = other.back,
                                !.nodes[other.back].to_b = self.front],
             self |-> ListValue(other.front, self.back, self.len + other.len),
             other |-> ListValue(Null, Null, 0)]

\* List::append_front linking other's nodes behind self's.
append_front_behind(h, self, other) ==
  IF other.back = Null
  THEN [heap |-> h, self |-> self, other |-> other]
  ELSE IF self.front = Null
       THEN [heap |-> h, self |-> other, other |-> self]
       ELSE [heap |-> [h EXCEPT !.nodes[self.back].to_b = other.front,
                                !.nodes[other.front].to_f = self.back],
             self |-> ListValue(self.front, other.back, self.len + other.len),
             other |-> ListValue(Null, Null, 0)]

\* List::append_front: all of other's nodes go before self's.
append_front(h, self, other) ==
  IF other.back = Null
  THEN [heap |-> h, self |-> self, other |-> other]
  ELSE IF self.front = Null
       THEN [heap |-> h, self |-> other, other |-> self]
       ELSE [heap |-> [h EXCEPT !.nodes[self.front].to_f = other.back,
                                !.nodes[other.back].to_b = self.front],
             self |-> ListValue(other.front, self.back, self.len + other.len),
             other |-> ListValue(Null, Null, 0)]

\* List::append_back that leaves self.len as it is.
append_back_short(h, self, other) ==
  IF other.front = Null
  THEN [heap |-> h, self |-> self, other |-> other]
  ELSE IF self.back = Null
       THEN [heap |-> h, self |-> other, other |-> self]
       ELSE [heap |-> [h EXCEPT !.nodes[self.back].to_b = other.front,
                                !.nodes[other.front].to_f = self.back],
             self |-> ListValue(self.front, other.back, self.len),
             other |-> ListValue(Null, Null, 0)]

\* List::append_back linking other's nodes in front of self's.
append_back_ahead(h, self, other) ==
  IF other.front = Null
  THEN [heap |-> h, self |-> self, other |-> other]
  ELSE IF self.back = Null
       THEN [heap |-> h, self |-> other, other |-> self]
       ELSE [heap |-> [h EXCEPT !.nodes[self.front].to_f = other.back,
                                !.nodes[other.back].to_b = self.front],
             self |-> ListValue(other.front, self.back, self.len + other.len),
             other |-> ListValue(Null, Null, 0)]

\* List::append_back that links self's back node to other's front node and
\* not the other way round.
append_back_one_way(h, self, other) ==
  IF other.front = Null
  THEN [heap |-> h, self |-> self, other |-> other]
  ELSE IF self.back = Null
       THEN [heap |-> h, self |-> other, other |-> self]
       ELSE [heap |-> [h EXCEPT !.nodes[self.back].to_b = other.front],
             self |-> ListValue(self.front, other.back, self.len + other.len),
             other |-> ListValue(Null, Null, 0)]

\* List::append_back: all of other's nodes go after self's.
append_back(h, self, other) ==
  IF other.front = Null
  THEN [heap |-> h, self |-> self, other |-> other]
  ELSE IF self.back = Null
       THEN [heap |-> h, self |-> other, other |-> self]
       ELSE [heap |-> [h EXCEPT !.nodes[self.back].to_b = other.front,
                                !.nodes[other.front].to_f = self.back],
             self |-> ListValue(self.front, other.back, self.len + other.len),
             other |-> ListValue(Null, Null, 0)]

\* Drop for List: frees every node reached from front through to_b.
RECURSIVE DropFrom(_, _)
DropFrom(h, here) ==
  IF here = Null THEN h ELSE DropFrom(Free(h, here), h.nodes[here].to_b)

drop_list(h, self) == DropFrom(h, self.front)

\* Iter::next repeated to exhaustion: the elements front to back.
RECURSIVE IterFrom(_, _, _)
IterFrom(h, front, len) ==
  IF len = 0 THEN <<>>
  ELSE <<h.nodes[front].data>> \o IterFrom(h, h.nodes[front].to_b, len - 1)

\* List::iter().collect()
Elements(h, self) == IterFrom(h, self.front, self.len)

\* FromIterator for List: every element of the iterator is pushed at the back
\* of a new list.
RECURSIVE FromIterLoop(_, _, _)
FromIterLoop(h, result, iter) ==
  IF iter = <<>> THEN [heap |-> h, self |-> result]
  ELSE LET r == push_back(h, result, Head(iter))
       IN  FromIterLoop(r.heap, r.self, Tail(iter))

from_iter(h, iter) == FromIterLoop(h, List_new, iter)

\* IntoIter::next repeated until it returns None: the items it yields, and
\* the list and the heap it leaves.
RECURSIVE IntoIterAll(_, _)
IntoIterAll(h, list) ==
  LET r == pop_front(h, list)
  IN  IF ~r.some THEN [heap |-> r.heap, self |-> r.self, items |-> <<>>]
      ELSE LET rest == IntoIterAll(r.heap, r.self)
           IN  [heap |-> rest.heap, self |-> rest.self,
                items |-> <<r.data>> \o rest.items]

\* --------------------------------------------------------------------------
\* The inputs of tangle_output
\* --------------------------------------------------------------------------

\* One item of BufReader::lines(): Ok(text) or Err(_) for a line that is not
\* valid UTF-8.
OkLine(text) == [ok |-> TRUE, text |-> text]
ErrLine == [ok |-> FALSE, text |-> <<>>]

TextX == <<"x">>
TextY == <<"y">>
TextZ == <<"z">>
TextW == <<"w">>
TextMalformed == <<" ", " ", "#", "#", "[", "f", "o", "o", "]">>
TextInsert == <<"#", "#", "[", "i", "n", "s", "e", "r", "t", "]">>
LabelBody == <<"(", "B", "o", "d", "y", ")">>
LabelB == <<"(", "b", ")">>
TextLabel(l) == <<"#", "#", "[", "l", "a", "b", "e", "l">> \o l \o <<"]">>
TextBefore(l) == <<"#", "#", "[", "b", "e", "f", "o", "r", "e">> \o l \o <<"]">>
TextAfter(l) == <<"#", "#", "[", "a", "f", "t", "e", "r">> \o l \o <<"]">>

\* The lines an input of at most MaxLines lines is made of: ordinary text,
\* an undecodable line, a malformed anchor, and directives over two labels,
\* the second label declared at column 2.
LinePool ==
  { OkLine(TextX), OkLine(TextY), ErrLine, OkLine(TextMalformed),
    OkLine(TextInsert),
    OkLine(TextLabel(LabelBody)), OkLine(<<" ", " ">> \o TextLabel(LabelB)),
    OkLine(TextBefore(LabelBody)), OkLine(TextAfter(LabelBody)),
    OkLine(<<"/", "/", " ">> \o TextAfter(LabelB)) }

\* Unit inputs: the first stream of tests/tangling/test1, which declares the
\* label Body between two lines of text, and a second stream made of units,
\* each a directive line followed by one line of text.
Headers ==
  { <<OkLine(TextX), OkLine(TextLabel(LabelBody)), OkLine(TextY)>> }

UnitDirectives ==
  { OkLine(TextBefore(LabelBody)), OkLine(TextAfter(LabelBody)), OkLine(TextInsert) }

UnitTexts == { OkLine(TextZ), OkLine(TextW) }

\* Nested inputs: one stream in which the label b is declared at column 2 in
\* the root, and the label Body is declared at column 4 in a section that is
\* attached to b; text lines stand at the root, inside b and inside Body.
NestedLines ==
  << { OkLine(TextX) },
     { OkLine(<<" ", " ">> \o TextLabel(LabelB)) },
     { OkLine(TextAfter(LabelB)), OkLine(TextBefore(LabelB)) },
     { OkLine(TextY) },
     { OkLine(<<" ", " ", " ", " ">> \o TextLabel(LabelBody)) },
     { OkLine(TextAfter(LabelBody)), OkLine(TextBefore(LabelBody)) },
     { OkLine(TextZ) },
     { OkLine(TextInsert) },
     { OkLine(TextW) } >>

\* Lines with an anchor candidate that does not parse: an operator without
\* its argument, and an argument behind an operator that takes none, found
\* in the middle of a line.
TextLabelNoArg == <<"#", "#", "[", "l", "a", "b", "e", "l", "]">>
CandidateInsertArg ==
  <<"#", "#", "[", "i", "n", "s", "e", "r", "t", "(", "b", ")", "]">>
TextInsertArg == <<"x", " ">> \o CandidateInsertArg \o <<" ", "y">>

\* Broken inputs: one stream that declares Body, attaches a section to it,
\* and reads a line of text, then a line that does not parse or does not
\* decode, then one more line.
BrokenLines ==
  << { OkLine(TextLabel(LabelBody)) },
     { OkLine(TextAfter(LabelBody)) },
     { OkLine(TextX) },
     { OkLine(TextMalformed), OkLine(TextLabelNoArg), OkLine(TextInsertArg), ErrLine },
     { OkLine(TextY), OkLine(TextMalformed), ErrLine } >>

\* Routed inputs: one stream that declares Body and attaches the line x to
\* it, then, behind a Before, After or Insert directive, reads the line y,
\* the declaration of b at column 2 and the line z, and last attaches the
\* line w to b.
RoutedLines ==
  << { OkLine(TextLabel(LabelBody)) },
     { OkLine(TextAfter(LabelBody)) },
     { OkLine(TextX) },
     { OkLine(TextBefore(LabelBody)), OkLine(TextAfter(LabelBody)), OkLine(TextInsert) },
     { OkLine(TextY) },
     { OkLine(<<" ", " ">> \o TextLabel(LabelB)) },
     { OkLine(TextZ) },
     { OkLine(TextAfter(LabelB)) },
     { OkLine(TextW) } >>

\* Split inputs: the label Body is declared, a line of text is routed to it
\* by a Before or After directive, and three more lines follow, the second
\* one a line of text or the declaration of b; the lines are one stream or
\* are cut into two streams at any line.
SplitLines ==
  << { OkLine(TextLabel(LabelBody)) },
     { OkLine(TextAfter(LabelBody)), OkLine(TextBefore(LabelBody)) },
     { OkLine(TextX) },
     { OkLine(TextY) },
     { OkLine(TextZ), OkLine(<<" ", " ">> \o TextLabel(LabelB)) },
     { OkLine(TextW) } >>

\* Redeclaring inputs: one stream in which the label Body is declared again
\* while the state is Before(Body) or After(Body), so that the reference the
\* second declaration makes is attached to Body itself; the directive that
\* follows names Body, the undeclared label b, or is ##[insert].
RedeclaringLines ==
  << { OkLine(TextLabel(LabelBody)) },
     { OkLine(TextAfter(LabelBody)), OkLine(TextBefore(LabelBody)) },
     { OkLine(TextX) },
     { OkLine(TextLabel(LabelBody)) },
     { OkLine(TextY) },
     { OkLine(TextAfter(LabelBody)), OkLine(TextAfter(LabelB)), OkLine(TextInsert) },
     { OkLine(TextZ) } >>

AllLines ==
  LinePool \cup UnitDirectives \cup UnitTexts
    \cup UNION {NestedLines[k] : k \in 1..Len(NestedLines)}
    \cup UNION {BrokenLines[k] : k \in 1..Len(BrokenLines)}
    \cup UNION {RoutedLines[k] : k \in 1..Len(RoutedLines)}
    \cup UNION {SplitLines[k] : k \in 1..Len(SplitLines)}
    \cup UNION {RedeclaringLines[k] : k \in 1..Len(RedeclaringLines)}

\* File.name of the i-th stream.
Names == << <<"A">>, <<"B">>, <<"C">>, <<"D">> >>

IsPrefix(p, s) == Len(p) <= Len(s) /\ SubSeq(s, 1, Len(p)) = p

TotalLines(inp) ==
  LET RECURSIVE Sum(_)
      Sum(i) == IF i = 0 THEN 0 ELSE Len(inp[i].lines) + Sum(i - 1)
  IN  Sum(Len(inp))

\* An input of at most MaxStreams streams and MaxLines lines over LinePool.
GeneralInput(inp) ==
  /\ Len(inp) <= MaxStreams
  /\ TotalLines(inp) <= MaxLines
  /\ \A i \in 1..Len(inp) : \A k \in 1..Len(inp[i].lines) : inp[i].lines[k] \in LinePool

\* A unit input, or what has been read of one.
UnitInput(inp) ==
  /\ Len(inp) \in 1..2
  /\ \E hd \in Headers : IsPrefix(inp[1].lines, hd)
  /\ Len(inp) = 2 =>
       /\ inp[1].lines \in Headers
       /\ Len(inp[2].lines) <= 2 * MaxUnits
       /\ \A k \in 1..Len(inp[2].lines) :
            inp[2].lines[k] \in (IF k % 2 = 1 THEN UnitDirectives ELSE UnitTexts)

\* A nested input, or what has been read of one.
NestedInput(inp) ==
  /\ Len(inp) = 1
  /\ Len(inp[1].lines) <= Len(NestedLines)
  /\ \A k \in 1..Len(inp[1].lines) : inp[1].lines[k] \in NestedLines[k]

\* Forward inputs: a Before or After directive on the label Body and a line
\* of text, then the declaration of Body and another line of text, in one
\* stream or cut into two streams at any line.
ForwardLines ==
  << { OkLine(TextAfter(LabelBody)), OkLine(TextBefore(LabelBody)) },
     { OkLine(TextX) },
     { OkLine(TextLabel(LabelBody)) },
     { OkLine(TextY) } >>

\* The lines of all streams of an input, one stream after the other.
RECURSIVE AllLinesOf(_)
AllLinesOf(inp) ==
  IF inp = <<>> THEN <<>> ELSE Head(inp).lines \o AllLinesOf(Tail(inp))

\* A forward input, or what has been read of one.
ForwardInput(inp) ==
  /\ Len(inp) \in 1..2
  /\ Len(inp) = 2 => inp[1].lines # <<>>
  /\ LET ls == AllLinesOf(inp)
     IN  /\ Len(ls) <= Len(ForwardLines)
         /\ \A k \in 1..Len(ls) : ls[k] \in ForwardLines[k]

\* A broken input, or what has been read of one.
BrokenInput(inp) ==
  /\ Len(inp) = 1
  /\ Len(inp[1].lines) <= Len(BrokenLines)
  /\ \A k \in 1..Len(inp[1].lines) : inp[1].lines[k] \in BrokenLines[k]

\* The lines of text of an insert input, in their order.
InsertTexts == <<OkLine(TextX), OkLine(TextY), OkLine(TextZ), OkLine(TextW)>>

\* Insert inputs: at most two streams of at most MaxInsertLines lines in
\* all, which are the lines of text x, y, z, w in this order with
\* ##[insert] lines anywhere between, before and after them.
InsertInput(inp) ==
  /\ Len(inp) \in 1..2
  /\ LET ls == AllLinesOf(inp)
         texts == SelectSeq(ls, LAMBDA l : l # OkLine(TextInsert))
     IN  /\ Len(ls) <= MaxInsertLines
         /\ Len(texts) <= Len(InsertTexts)
         /\ texts = SubSeq(InsertTexts, 1, Len(texts))

\* A routed input, or what has been read of one.
RoutedInput(inp) ==
  /\ Len(inp) = 1
  /\ Len(inp[1].lines) <= Len(RoutedLines)
  /\ \A k \in 1..Len(inp[1].lines) : inp[1].lines[k] \in RoutedLines[k]

\* A split input, or what has been read of one.
SplitInput(inp) ==
  /\ Len(inp) \in 1..2
  /\ Len(inp) = 2 => inp[1].lines # <<>>
  /\ LET ls == AllLinesOf(inp)
     IN  /\ Len(ls) <= Len(SplitLines)
         /\ \A k \in 1..Len(ls) : ls[k] \in SplitLines[k]

\* A redeclaring input, or what has been read of one.
RedeclaringInput(inp) ==
  /\ Len(inp) = 1
  /\ Len(inp[1].lines) <= Len(RedeclaringLines)
  /\ \A k \in 1..Len(inp[1].lines) : inp[1].lines[k] \in RedeclaringLines[k]

\* The inputs the model hands to tangle_output.
Admissible(inp) ==
  \/ RedeclaringInput(inp)
  \/ SplitInput(inp)
  \/ RoutedInput(inp)
  \/ InsertInput(inp)
  \/ GeneralInput(inp)
  \/ UnitInput(inp)
  \/ NestedInput(inp)
  \/ ForwardInput(inp)
  \/ BrokenInput(inp)

\* --------------------------------------------------------------------------
\* lib.rs: data
\* --------------------------------------------------------------------------

\* OutputOptions { comment }
NoComment == [some |-> FALSE, prefix |-> <<>>]
SomeComment(prefix) == [some |-> TRUE, prefix |-> prefix]
CommentLeader == <<"/", "/">>

\* Block::new
Block_new(file, line) == [lines |-> <<>>, file |-> file, lineno |-> line]

NoBlock == Block_new(<<>>, 0)

\* Anchor::new
Anchor_new(indentation) == [indentation |-> indentation, tangled |-> List_new]

\* Either::Left(block) and Either::Right(AnchorRef(name))
Left(b) == [left |-> TRUE, block |-> b, name |-> <<>>]
Right(name) == [left |-> FALSE, block |-> NoBlock, name |-> name]

\* OutputTarget
TargetInsert == [target |-> "Insert", name |-> <<>>]
TargetBefore(name) == [target |-> "Before", name |-> name]
TargetAfter(name) == [target |-> "After", name |-> name]

\* NotUTF8 carrying the 0-based index of the line.
NotUTF8_index(file, line) ==
  [kind |-> "NotUTF8", file |-> file, lineno |-> line - 1, text |-> <<>>]

\* processing_errors::ErrorKind
NotUTF8(file, line) ==
  [kind |-> "NotUTF8", file |-> file, lineno |-> line, text |-> <<>>]
MalformedAnchor(file, line, anchor) ==
  [kind |-> "MalformedAnchor", file |-> file, lineno |-> line, text |-> anchor]
DuplicateAnchor(file, line, tag) ==
  [kind |-> "DuplicateAnchor", file |-> file, lineno |-> line, text |-> tag]
MissingTag(file, line, tag) ==
  [kind |-> "MissingTag", file |-> file, lineno |-> line, text |-> tag]

\* BTreeMap::insert and BTreeMap::remove on a map held as a function.
MapInsert(m, k, v) == [x \in (DOMAIN m) \cup {k} |-> IF x = k THEN v ELSE m[x]]
\* BTreeMap::remove that hands out the value and leaves the entry.
MapRemove_kept(m, k) == m

MapRemove(m, k) == [x \in (DOMAIN m) \ {k} |-> m[x]]

\* --------------------------------------------------------------------------
\* lib.rs: the state of tangle_output
\* --------------------------------------------------------------------------

VARIABLES
  pc,               \* where tangle_output is: "inputs" (head of the loop over
                    \* the inputs), "lines" (inside a stream), "collect"
                    \* (collect_anchor_lines), "done" (returned), "panicked"
  inputs,           \* the streams handed in, as far as they have been read
  options,          \* OutputOptions
  heap,             \* the nodes of all lists
  tangled,          \* the root sequence
  anchors,          \* BTreeMap<String, Anchor>
  errors,           \* the errors accrued during processing
  lineno,           \* number of lines read from the current stream
  state,            \* OutputTarget of the current stream
  tangled_section,  \* the pending section of the current stream
  block,            \* the block being accumulated
  stack,            \* the calls of collect_anchor_lines in progress
  lines             \* the output lines collected so far

vars == <<pc, inputs, options, heap, tangled, anchors, errors, lineno, state,
          tangled_section, block, stack, lines>>

\* Rc<String> of the current stream's name.
filename == inputs[Len(inputs)].name

\* inputs after one more line of the current stream has been read.
Consumed(inp, line) ==
  [inp EXCEPT ![Len(inp)].lines = Append(inp[Len(inp)].lines, line)]

Init ==
  /\ pc = "inputs"
  /\ inputs = <<>>
  /\ options \in {[comment |-> NoComment], [comment |-> SomeComment(CommentLeader)]}
  /\ heap = EmptyHeap
  /\ tangled = List_new
  /\ anchors = <<>>
  /\ errors = <<>>
  /\ lineno = 0
  /\ state = TargetInsert
  /\ tangled_section = List_new
  /\ block = NoBlock
  /\ stack = <<>>
  /\ lines = <<>>

\* --------------------------------------------------------------------------
\* lib.rs: the tangle pass
\* --------------------------------------------------------------------------

\* process_block_lines taking every line that decodes for an ordinary line.
LineResult_lenient(line) ==
  IF ~line.ok
  THEN [kind |-> "NotUTF8", anchor |-> AnchorValue(None, <<>>),
        indentation |-> 0, found |-> <<>>]
  ELSE [kind |-> "ErrNone", anchor |-> AnchorValue(None, <<>>),
        indentation |-> 0, found |-> <<>>]

\* The value of `result` in process_block_lines for one item of the lines
\* iterator.
LineResult(line) ==
  IF ~line.ok
  THEN [kind |-> "NotUTF8", anchor |-> AnchorValue(None, <<>>),
        indentation |-> 0, found |-> <<>>]
  ELSE LET found == might_be_anchor(line.text)
       IN  IF ~found.found
           THEN [kind |-> "ErrNone", anchor |-> AnchorValue(None, <<>>),
                 indentation |-> 0, found |-> <<>>]
           ELSE LET parsed == parse(found.text)
                IN  IF parsed.ok
                    THEN [kind |-> "Ok", anchor |-> parsed.anchor,
                          indentation |-> indentation_level(line.text),
                          found |-> found.text]
                    ELSE [kind |-> "ErrSome", anchor |-> AnchorValue(None, <<>>),
                          indentation |-> 0, found |-> found.text]

\* emplace_section! that sends every pending section to the root sequence.
emplace_section_root(h, tg, an, st, section) ==
  LET r == append_back(h, tg, section)
  IN  [panic |-> FALSE, heap |-> r.heap, tangled |-> r.self, anchors |-> an]

\* emplace_section! putting the pending section in front of the root sequence.
emplace_section_front(h, tg, an, st, section) ==
  IF st.target = "Insert"
  THEN LET r == append_front(h, tg, section)
       IN  [panic |-> FALSE, heap |-> r.heap, tangled |-> r.self, anchors |-> an]
  ELSE IF st.name \notin DOMAIN an
       THEN [panic |-> TRUE, heap |-> h, tangled |-> tg, anchors |-> an]
       ELSE LET r == IF st.target = "Before"
                     THEN append_front(h, an[st.name].tangled, section)
                     ELSE append_back(h, an[st.name].tangled, section)
            IN  [panic |-> FALSE, heap |-> r.heap, tangled |-> tg,
                 anchors |-> [an EXCEPT ![st.name].tangled = r.self]]

\* emplace_section! that attaches a section behind the children of the
\* target in state Before as well.
emplace_section_behind(h, tg, an, st, section) ==
  IF st.target = "Insert"
  THEN LET r == append_back(h, tg, section)
       IN  [panic |-> FALSE, heap |-> r.heap, tangled |-> r.self, anchors |-> an]
  ELSE IF st.name \notin DOMAIN an
       THEN [panic |-> TRUE, heap |-> h, tangled |-> tg, anchors |-> an]
       ELSE LET r == append_back(h, an[st.name].tangled, section)
            IN  [panic |-> FALSE, heap |-> r.heap, tangled |-> tg,
                 anchors |-> [an EXCEPT ![st.name].tangled = r.self]]

\* emplace_section!: the pending section goes to the target of the state.
emplace_section(h, tg, an, st, section) ==
  IF st.target = "Insert"
  THEN LET r == append_back(h, tg, section)
       IN  [panic |-> FALSE, heap |-> r.heap, tangled |-> r.self, anchors |-> an]
  ELSE IF st.name \notin DOMAIN an
       THEN [panic |-> TRUE, heap |-> h, tangled |-> tg, anchors |-> an]
       ELSE LET r == IF st.target = "Before"
                     THEN append_front(h, an[st.name].tangled, section)
                     ELSE append_back(h, an[st.name].tangled, section)
            IN  [panic |-> FALSE, heap |-> r.heap, tangled |-> tg,
                 anchors |-> [an EXCEPT ![st.name].tangled = r.self]]

\* The block push without its test for an empty block.
push_block_always(h, section, b) == push_back(h, section, Left(b))

\* if !block.lines.is_empty() { tangled_section.push_back(Either::Left(block)) }
push_block(h, section, b) ==
  IF b.lines # <<>> THEN push_back(h, section, Left(b))
  ELSE [heap |-> h, self |-> section]

\* has_anchor! taking every label for declared.
has_anchor_always(an, anchor_name) == TRUE

\* has_anchor!
has_anchor(an, anchor_name) == anchor_name \in DOMAIN an

\* A Before or After directive that does not switch the state.
target_after_lost(an, anchor) == TargetInsert

\* The state a Before or After directive leaves.
target_after(an, anchor) ==
  IF has_anchor(an, anchor.label)
  THEN (IF anchor.op = "Before" THEN TargetBefore(anchor.label)
        ELSE TargetAfter(anchor.label))
  ELSE TargetInsert

\* A Before or After directive that records no error.
errors_after_silent(an, errs, file, line, anchor) == errs

\* The errors a Before or After directive leaves.
errors_after(an, errs, file, line, anchor) ==
  IF has_anchor(an, anchor.label) THEN errs
  ELSE Append(errs, MissingTag(file, line, anchor.label))

\* Block::new(filename.clone(), lineno) for the block after a directive read
\* on line `line`.
next_block(file, line) == Block_new(file, line)

\* for input in inputs: the next stream is opened.
NextInput ==
  /\ pc = "inputs"
  /\ Len(inputs) < Len(Names)
  /\ LET inp == Append(inputs, [name |-> Names[Len(inputs) + 1], lines |-> <<>>])
     IN  /\ Admissible(inp)
         /\ inputs' = inp
         /\ block' = Block_new(Names[Len(inputs) + 1], 1)
  /\ pc' = "lines"
  /\ lineno' = 0
  /\ state' = TargetInsert
  /\ tangled_section' = List_new
  /\ UNCHANGED <<options, heap, tangled, anchors, errors, stack, lines>>

\* A line of the current stream is read whose `result` has the given kind.
Reads(line, kind) ==
  /\ pc = "lines"
  /\ Admissible(Consumed(inputs, line))
  /\ LineResult(line).kind = kind
  /\ inputs' = Consumed(inputs, line)
  /\ lineno' = lineno + 1

\* Err(_) => errors.push(NotUTF8)
ReadNotUTF8 ==
  \E line \in AllLines :
    /\ Reads(line, "NotUTF8")
    /\ errors' = Append(errors, NotUTF8(filename, lineno + 1))
    /\ UNCHANGED <<pc, options, heap, tangled, anchors, state, tangled_section,
                   block, stack, lines>>

\* Err(Some(error)) => { errors.push(error); block.lines.push(line) }
ReadMalformed ==
  \E line \in AllLines :
    /\ Reads(line, "ErrSome")
    /\ errors' = Append(errors,
                   MalformedAnchor(filename, lineno + 1, LineResult(line).found))
    /\ block' = [block EXCEPT !.lines = Append(@, line.text)]
    /\ UNCHANGED <<pc, options, heap, tangled, anchors, state, tangled_section,
                   stack, lines>>

\* Err(None) => block.lines.push(line)
ReadPlain ==
  \E line \in AllLines :
    /\ Reads(line, "ErrNone")
    /\ block' = [block EXCEPT !.lines = Append(@, line.text)]
    /\ UNCHANGED <<pc, options, heap, tangled, anchors, errors, state,
                   tangled_section, stack, lines>>

\* A directive line whose anchor has the given operator.
ReadsAnchor(line, op) ==
  /\ Reads(line, "Ok")
  /\ LineResult(line).anchor.op = op

\* The part common to Anchor::Insert, Anchor::Before and Anchor::After: the
\* block read so far joins the pending section, which is emplaced.
Routed(next_state, next_errors) ==
  LET p == push_block(heap, tangled_section, block)
      e == emplace_section(p.heap, tangled, anchors, state, p.self)
  IN  /\ heap' = e.heap
      /\ tangled' = e.tangled
      /\ anchors' = e.anchors
      /\ tangled_section' = List_new
      /\ block' = next_block(filename, lineno + 1)
      /\ state' = next_state
      /\ errors' = next_errors
      /\ pc' = IF e.panic THEN "panicked" ELSE pc
      /\ UNCHANGED <<options, stack, lines>>

\* Anchor::Insert
ReadInsert ==
  \E line \in AllLines :
    /\ ReadsAnchor(line, "Insert")
    /\ Routed(TargetInsert, errors)

\* Anchor::Before(anchor_name)
ReadBefore ==
  \E line \in AllLines :
    /\ ReadsAnchor(line, "Before")
    /\ Routed(target_after(anchors, LineResult(line).anchor),
              errors_after(anchors, errors, filename, lineno + 1,
                           LineResult(line).anchor))

\* Anchor::After(anchor_name)
ReadAfter ==
  \E line \in AllLines :
    /\ ReadsAnchor(line, "After")
    /\ Routed(target_after(anchors, LineResult(line).anchor),
              errors_after(anchors, errors, filename, lineno + 1,
                           LineResult(line).anchor))

\* anchors.insert that leaves the anchor map as it was.
insert_anchor_forgotten(h, an, anchor_name, indentation) ==
  [heap |-> h, anchors |-> an]

\* anchors.insert(anchor_name, Anchor::new(indentation)); the anchor the map
\* held under that name, if any, is dropped with its children.
insert_anchor(h, an, anchor_name, indentation) ==
  [heap |-> IF anchor_name \in DOMAIN an
            THEN drop_list(h, an[anchor_name].tangled) ELSE h,
   anchors |-> MapInsert(an, anchor_name, Anchor_new(indentation))]

\* Anchor::Label(anchor_name)
ReadLabel ==
  \E line \in AllLines :
    /\ ReadsAnchor(line, "Label")
    /\ LET res == LineResult(line)
           p == push_block(heap, tangled_section, block)
           i == insert_anchor(p.heap, anchors, res.anchor.label, res.indentation)
           r == push_back(i.heap, p.self, Right(res.anchor.label))
       IN  /\ heap' = r.heap
           /\ anchors' = i.anchors
           /\ tangled_section' = r.self
           /\ block' = next_block(filename, lineno + 1)
    /\ UNCHANGED <<pc, options, tangled, errors, state, stack, lines>>

\* The end of a stream that drops the pending section and the block read
\* last instead of emplacing them.
EndOfStream_unflushed ==
  /\ pc = "lines"
  /\ pc' = "inputs"
  /\ heap' = drop_list(heap, tangled_section)
  /\ lineno' = 0
  /\ state' = TargetInsert
  /\ tangled_section' = List_new
  /\ block' = NoBlock
  /\ UNCHANGED <<inputs, options, tangled, anchors, errors, stack, lines>>

\* None => { emplace_section!(); break }: the stream is exhausted.
EndOfStream ==
  /\ pc = "lines"
  /\ LET p == push_block(heap, tangled_section, block)
         e == emplace_section(p.heap, tangled, anchors, state, p.self)
     IN  /\ heap' = e.heap
         /\ tangled' = e.tangled
         /\ anchors' = e.anchors
         /\ pc' = IF e.panic THEN "panicked" ELSE "inputs"
  /\ lineno' = 0
  /\ state' = TargetInsert
  /\ tangled_section' = List_new
  /\ block' = NoBlock
  /\ UNCHANGED <<inputs, options, errors, stack, lines>>

\* --------------------------------------------------------------------------
\* lib.rs: output assembly
\* --------------------------------------------------------------------------

\* maybe_block_header leaving out the quotes around the stream name.
maybe_block_header_unquoted(b, opts) ==
  IF opts.comment.some
  THEN [some |-> TRUE,
        header |-> opts.comment.prefix \o <<" ">> \o b.file
                   \o <<",", " ", "l", "i", "n", "e", " ">>
                   \o FormatUsize(b.lineno)]
  ELSE [some |-> FALSE, header |-> <<>>]

\* maybe_block_header
maybe_block_header(b, opts) ==
  IF opts.comment.some
  THEN [some |-> TRUE,
        header |-> opts.comment.prefix \o <<" ", "'">> \o b.file
                   \o <<"'", ",", " ", "l", "i", "n", "e", " ">>
                   \o FormatUsize(b.lineno)]
  ELSE [some |-> FALSE, header |-> <<>>]

\* The lines of one block, each pushed behind one space too many.
block_output_shifted(b, indentation, opts) ==
  LET indent_prefix == Spaces(indentation + 1)
      comment == maybe_block_header(b, opts)
  IN  (IF comment.some THEN << indent_prefix \o comment.header >> ELSE <<>>)
      \o [k \in 1..Len(b.lines) |-> indent_prefix \o b.lines[k]]

\* The lines collect_anchor_lines pushes for one block.
block_output(b, indentation, opts) ==
  LET indent_prefix == Spaces(indentation)
      comment == maybe_block_header(b, opts)
  IN  (IF comment.some THEN << indent_prefix \o comment.header >> ELSE <<>>)
      \o [k \in 1..Len(b.lines) |-> indent_prefix \o b.lines[k]]

\* collect_tangled_output: the inputs are exhausted and the root sequence is
\* handed to collect_anchor_lines with indentation 0.
StartCollect ==
  /\ pc = "inputs"
  /\ pc' = "collect"
  /\ stack' = << [tangled |-> tangled, indentation |-> 0] >>
  /\ tangled' = List_new
  /\ lines' = <<>>
  /\ UNCHANGED <<inputs, options, heap, anchors, errors, lineno, state,
                 tangled_section, block>>

\* The innermost call of collect_anchor_lines and the next knot of its loop.
Top == stack[Len(stack)]
NextKnot == pop_front(heap, Top.tangled)

\* Either::Left(block): the block's lines are pushed.
CollectBlock ==
  /\ pc = "collect"
  /\ NextKnot.some /\ NextKnot.data.left
  /\ heap' = NextKnot.heap
  /\ stack' = [stack EXCEPT ![Len(stack)].tangled = NextKnot.self]
  /\ lines' = lines \o block_output(NextKnot.data.block, Top.indentation, options)
  /\ UNCHANGED <<pc, inputs, options, tangled, anchors, errors, lineno, state,
                 tangled_section, block>>

\* The indentation of a nested call that forgets the indentation of its caller.
child_indentation_own(indentation, anchor) == anchor.indentation

\* indentation + anchor.indentation: the indentation handed to the nested call.
child_indentation(indentation, anchor) == indentation + anchor.indentation

\* Either::Right(AnchorRef(anchor_name)): the anchor is removed from the map
\* and its children are collected by a nested call.
CollectAnchor ==
  /\ pc = "collect"
  /\ NextKnot.some /\ ~NextKnot.data.left
  /\ NextKnot.data.name \in DOMAIN anchors
  /\ LET anchor == anchors[NextKnot.data.name]
     IN  stack' = Append([stack EXCEPT ![Len(stack)].tangled = NextKnot.self],
                         [tangled |-> anchor.tangled,
                          indentation |-> child_indentation(Top.indentation, anchor)])
  /\ heap' = NextKnot.heap
  /\ anchors' = MapRemove(anchors, NextKnot.data.name)
  /\ UNCHANGED <<pc, inputs, options, tangled, errors, lineno, state,
                 tangled_section, block, lines>>

\* anchors.remove(anchor_name).expect(..) on a name the map does not hold.
CollectPanic ==
  /\ pc = "collect"
  /\ NextKnot.some /\ ~NextKnot.data.left
  /\ NextKnot.data.name \notin DOMAIN anchors
  /\ pc' = "panicked"
  /\ heap' = NextKnot.heap
  /\ stack' = [stack EXCEPT ![Len(stack)].tangled = NextKnot.self]
  /\ UNCHANGED <<inputs, options, tangled, anchors, errors, lineno, state,
                 tangled_section, block, lines>>

\* The loop over the knots is exhausted: the call returns; the outermost
\* return ends tangle_output.
CollectReturn ==
  /\ pc = "collect"
  /\ ~NextKnot.some
  /\ stack' = SubSeq(stack, 1, Len(stack) - 1)
  /\ pc' = IF Len(stack) = 1 THEN "done" ELSE "collect"
  /\ UNCHANGED <<inputs, options, heap, tangled, anchors, errors, lineno, state,
                 tangled_section, block, lines>>

Next ==
  \/ NextInput
  \/ ReadNotUTF8
  \/ ReadMalformed
  \/ ReadPlain
  \/ ReadInsert
  \/ ReadBefore
  \/ ReadAfter
  \/ ReadLabel
  \/ EndOfStream
  \/ StartCollect
  \/ CollectBlock
  \/ CollectAnchor
  \/ CollectPanic
  \/ CollectReturn

Spec == Init /\ [][Next]_vars

\* One step of the loop of collect_anchor_lines.
Collect ==
  \/ CollectBlock
  \/ CollectAnchor
  \/ CollectPanic
  \/ CollectReturn

\* tangle_output with its assembly run to the end: collect_anchor_lines is
\* sequential code, and it takes its next step whenever it has one.
FairSpec == Spec /\ WF_vars(Collect)

\* --------------------------------------------------------------------------
\* list.rs: the list operations on their own
\* --------------------------------------------------------------------------

\* The operations of List are applied in any order to two lists of knots:
\* `tangled` stands for self and `tangled_section` for other, as in
\* emplace_section!.  pc names the operation carried out last and lines holds
\* what it returned: the items yielded, none for None and for ().

\* The elements pushed: two blocks and a reference.
Knots ==
  { Left([lines |-> <<TextX>>, file |-> <<"A">>, lineno |-> 1]),
    Left([lines |-> <<TextY>>, file |-> <<"A">>, lineno |-> 2]),
    Right(LabelBody) }

\* The sequences handed to from_iter.
RECURSIVE SeqsUpTo(_)
SeqsUpTo(n) ==
  IF n = 0 THEN {<<>>}
  ELSE LET shorter == SeqsUpTo(n - 1)
       IN  shorter \cup {Append(q, k) : q \in {r \in shorter : Len(r) = n - 1}, k \in Knots}

\* The number of nodes that can still be allocated.
NodesLeft == MaxNodes + 1 - heap.next

ListInit ==
  /\ pc = "list"
  /\ inputs = <<>>
  /\ options = [comment |-> NoComment]
  /\ heap = EmptyHeap
  /\ tangled = List_new
  /\ anchors = <<>>
  /\ errors = <<>>
  /\ lineno = 0
  /\ state = TargetInsert
  /\ tangled_section = List_new
  /\ block = NoBlock
  /\ stack = <<>>
  /\ lines = <<>>

\* What no list operation touches.
ListFrame == UNCHANGED <<inputs, options, anchors, errors, lineno, state, block, stack>>

\* The step leaves self := s and other := o, o standing for tangled_section
\* unless the roles are swapped.
ListAssign(swapped, s, o) ==
  /\ tangled' = IF swapped THEN o ELSE s
  /\ tangled_section' = IF swapped THEN s ELSE o

ListSelf(swapped) == IF swapped THEN tangled_section ELSE tangled
ListOther(swapped) == IF swapped THEN tangled ELSE tangled_section

\* list.push_front(element)
ListPushFront ==
  \E swapped \in BOOLEAN, element \in Knots :
    /\ NodesLeft >= 1
    /\ LET r == push_front(heap, ListSelf(swapped), element)
       IN  heap' = r.heap /\ ListAssign(swapped, r.self, ListOther(swapped))
    /\ pc' = "push_front" /\ lines' = <<>>
    /\ ListFrame

\* list.push_back(element)
ListPushBack ==
  \E swapped \in BOOLEAN, element \in Knots :
    /\ NodesLeft >= 1
    /\ LET r == push_back(heap, ListSelf(swapped), element)
       IN  heap' = r.heap /\ ListAssign(swapped, r.self, ListOther(swapped))
    /\ pc' = "push_back" /\ lines' = <<>>
    /\ ListFrame

\* list.pop_front()
ListPopFront ==
  \E swapped \in BOOLEAN :
    /\ LET r == pop_front(heap, ListSelf(swapped))
       IN  /\ heap' = r.heap /\ ListAssign(swapped, r.self, ListOther(swapped))
           /\ lines' = IF r.some THEN <<r.data>> ELSE <<>>
    /\ pc' = "pop_front"
    /\ ListFrame

\* list.pop_back()
ListPopBack ==
  \E swapped \in BOOLEAN :
    /\ LET r == pop_back(heap, ListSelf(swapped))
       IN  /\ heap' = r.heap /\ ListAssign(swapped, r.self, ListOther(swapped))
           /\ lines' = IF r.some THEN <<r.data>> ELSE <<>>
    /\ pc' = "pop_back"
    /\ ListFrame

\* tangled.append_front(&mut tangled_section)
ListAppendFront ==
  /\ LET r == append_front(heap, tangled, tangled_section)
     IN  heap' = r.heap /\ tangled' = r.self /\ tangled_section' = r.other
  /\ pc' = "append_front" /\ lines' = <<>>
  /\ ListFrame

\* tangled.append_back(&mut tangled_section)
ListAppendBack ==
  /\ LET r == append_back(heap, tangled, tangled_section)
     IN  heap' = r.heap /\ tangled' = r.self /\ tangled_section' = r.other
  /\ pc' = "append_back" /\ lines' = <<>>
  /\ ListFrame

\* tangled_section = List::from_iter(iter): the list held before is dropped.
ListFromIter ==
  \E iter \in SeqsUpTo(NodesLeft) :
    /\ LET r == from_iter(drop_list(heap, tangled_section), iter)
       IN  heap' = r.heap /\ tangled_section' = r.self
    /\ pc' = "from_iter" /\ lines' = <<>>
    /\ UNCHANGED tangled
    /\ ListFrame

\* for knot in tangled: the list is moved into the iterator and drained.
ListIntoIter ==
  /\ LET r == IntoIterAll(heap, tangled)
     IN  heap' = r.heap /\ tangled' = r.self /\ lines' = r.items
  /\ pc' = "into_iter"
  /\ UNCHANGED tangled_section
  /\ ListFrame

ListNext ==
  \/ ListPushFront
  \/ ListPushBack
  \/ ListPopFront
  \/ ListPopBack
  \/ ListAppendFront
  \/ ListAppendBack
  \/ ListFromIter
  \/ ListIntoIter

ListSpec == ListInit /\ [][ListNext]_vars

\* --------------------------------------------------------------------------
\* parsing.rs: parse and might_be_anchor on their own
\* --------------------------------------------------------------------------

\* The texts of the tokens of lex_tokens, one argument with a blank in it,
\* and a character no token starts with.
TokenTexts ==
  { <<"#", "#", "[">>, <<"]">>,
    <<"i", "n", "s", "e", "r", "t">>, <<"b", "e", "f", "o", "r", "e">>,
    <<"a", "f", "t", "e", "r">>, <<"l", "a", "b", "e", "l">>,
    LabelB, <<"(", " ", "b", ")">>, <<"x">> }

\* The pieces of the lines handed to might_be_anchor: the characters of the
\* bracket pattern, an ordinary character, a directive and the attribute of
\* test_might_be_anchor_failure_1.
LinePieces ==
  { <<"#">>, <<"[">>, <<"]">>, <<"x">>, <<"#", "#", "[">>, TextInsert,
    <<"#", "[", "m", "a", "c", "r", "o", "_", "u", "s", "e", "]">> }

\* The text handed to the function under study.
given_text == lines[1]

\* The variables hold: pc which function is studied, lines the text put
\* together so far, lineno the number of its pieces, stack what the function
\* returned.
GrammarInit ==
  /\ pc \in {"tokens", "pieces"}
  /\ inputs = <<>>
  /\ options = [comment |-> NoComment]
  /\ heap = EmptyHeap
  /\ tangled = List_new
  /\ anchors = <<>>
  /\ errors = <<>>
  /\ lineno = 0
  /\ state = TargetInsert
  /\ tangled_section = List_new
  /\ block = NoBlock
  /\ stack = <<>>
  /\ lines = << <<>> >>

GrammarFrame ==
  UNCHANGED <<inputs, options, heap, tangled, anchors, errors, state,
              tangled_section, block>>

\* One more token text at the end of the argument of parse.
AppendToken ==
  /\ pc = "tokens"
  /\ lineno < MaxTokens
  /\ \E t \in TokenTexts : lines' = << given_text \o t >>
  /\ lineno' = lineno + 1
  /\ UNCHANGED <<pc, stack>>
  /\ GrammarFrame

\* One more piece at the end of the line.
AppendPiece ==
  /\ pc = "pieces"
  /\ lineno < MaxPieces
  /\ \E t \in LinePieces : lines' = << given_text \o t >>
  /\ lineno' = lineno + 1
  /\ UNCHANGED <<pc, stack>>
  /\ GrammarFrame

\* parsing::parse(text)
CallParse ==
  /\ pc = "tokens"
  /\ pc' = "parsed"
  /\ stack' = << parse(given_text) >>
  /\ UNCHANGED <<lines, lineno>>
  /\ GrammarFrame

\* parsing::might_be_anchor(line)
CallMightBeAnchor ==
  /\ pc = "pieces"
  /\ pc' = "matched"
  /\ stack' = << might_be_anchor(given_text) >>
  /\ UNCHANGED <<lines, lineno>>
  /\ GrammarFrame

\* The Ok(line) arm of process_block_lines up to the value of `result`.
CallProcessLine ==
  /\ pc = "pieces"
  /\ pc' = "processed"
  /\ stack' = << LineResult(OkLine(given_text)) >>
  /\ UNCHANGED <<lines, lineno>>
  /\ GrammarFrame

GrammarNext ==
  \/ AppendToken
  \/ AppendPiece
  \/ CallParse
  \/ CallMightBeAnchor
  \/ CallProcessLine

GrammarSpec == GrammarInit /\ [][GrammarNext]_vars

\* --------------------------------------------------------------------------
\* Reading the input back: what the streams read so far contain
\* --------------------------------------------------------------------------

\* What process_block_lines makes of each line of the model, as a table.
LineResults == [line \in AllLines |-> LineResult(line)]

ResultOf(line) == LineResults[line]

\* The labels the lines of the model can name.
Labels == {LabelBody, LabelB}

\* The positions <<stream, line number>> of the lines read so far.
Positions ==
  UNION { {<<s, k>> : k \in 1..Len(inputs[s].lines)} : s \in 1..Len(inputs) }

LineAt(p) == inputs[p[1]].lines[p[2]]

\* p precedes q in the order in which lines are read.
PosLess(p, q) == p[1] < q[1] \/ (p[1] = q[1] /\ p[2] < q[2])

\* A line that is a successfully parsed directive.
IsDirective(line) == ResultOf(line).kind = "Ok"

\* A line that is kept as an ordinary line of a block.
IsKept(line) == ResultOf(line).kind \in {"ErrNone", "ErrSome"}

\* The positions of the directives with operator op and label l.
DirectivesOf(op, l) ==
  {p \in Positions : /\ IsDirective(LineAt(p))
                     /\ ResultOf(LineAt(p)).anchor.op = op
                     /\ ResultOf(LineAt(p)).anchor.label = l}

\* A set of positions as the sequence in reading order.
RECURSIVE InOrder(_)
InOrder(ps) ==
  IF ps = {} THEN <<>>
  ELSE LET first == CHOOSE p \in ps : \A q \in ps : q = p \/ PosLess(p, q)
       IN  <<first>> \o InOrder(ps \ {first})

\* The line number of the first directive after position p in p's stream,
\* one past the last line read when there is none.
SectionEnd(p) ==
  LET ls == inputs[p[1]].lines
      ds == {k \in (p[2] + 1)..Len(ls) : IsDirective(ls[k])}
  IN  IF ds = {} THEN Len(ls) + 1 ELSE CHOOSE k \in ds : \A j \in ds : k <= j

\* The texts of the kept lines among lines from..to of stream s.
RECURSIVE KeptTexts(_, _, _)
KeptTexts(s, from, to) ==
  IF from > to THEN <<>>
  ELSE (IF IsKept(inputs[s].lines[from]) THEN <<inputs[s].lines[from].text>> ELSE <<>>)
       \o KeptTexts(s, from + 1, to)

\* The lines of the block that follows the directive at position p.
BlockAfter(p) == KeptTexts(p[1], p[2] + 1, SectionEnd(p) - 1)

Reverse(s) == [i \in 1..Len(s) |-> s[Len(s) + 1 - i]]

RECURSIVE Flatten(_)
Flatten(ss) == IF ss = <<>> THEN <<>> ELSE Head(ss) \o Flatten(Tail(ss))

\* The line just read by the step, and its place.
JustRead == inputs'[Len(inputs')].lines[Len(inputs'[Len(inputs')].lines)]

\* The step reads one line of the current stream.
ReadsALine ==
  /\ pc = "lines"
  /\ Len(inputs') = Len(inputs)
  /\ Len(inputs'[Len(inputs')].lines) = Len(inputs[Len(inputs)].lines) + 1

\* The step processes a directive with an operator in ops.
ReadsDirective(ops) ==
  /\ ReadsALine
  /\ IsDirective(JustRead)
  /\ ResultOf(JustRead).anchor.op \in ops

\* The elements of a list that are references to the anchor l.
RefsTo(elems, l) == {i \in 1..Len(elems) : ~elems[i].left /\ elems[i].name = l}

\* --------------------------------------------------------------------------
\* C1
\* --------------------------------------------------------------------------

\* The two streams of tests/tangling/test1.
Test1 ==
  << [name |-> <<"A">>,
      lines |-> <<OkLine(TextX), OkLine(TextLabel(LabelBody)), OkLine(TextY)>>],
     [name |-> <<"B">>,
      lines |-> <<OkLine(TextBefore(LabelBody)), OkLine(TextZ),
                  OkLine(TextInsert), OkLine(TextW)>>] >>

\* C1: tangling A = [x, ##[label(Body)], y] and B = [##[before(Body)], z,
\* ##[insert], w] with no comment leader returns the lines x, z, y, w and no
\* error.
C1_Test1Output ==
  (pc = "done" /\ inputs = Test1 /\ ~options.comment.some) =>
    /\ lines = <<TextX, TextZ, TextY, TextW>>
    /\ errors = <<>>

C1_Witness == pc = "done" /\ inputs = Test1 /\ ~options.comment.some

\* --------------------------------------------------------------------------
\* C2
\* --------------------------------------------------------------------------

\* C2: a Label(l) directive processed while l is in the anchor map records
\* exactly one DuplicateAnchor error, leaves the node of the first
\* declaration with its indentation and its children, and adds no reference
\* to l to the pending section.
C2_DuplicateLabelRejected ==
  [][ (ReadsDirective({"Label"}) /\ ResultOf(JustRead).anchor.label \in DOMAIN anchors) =>
        LET l == ResultOf(JustRead).anchor.label
        IN  /\ errors' = Append(errors, DuplicateAnchor(filename, lineno + 1, l))
            /\ DOMAIN anchors' = DOMAIN anchors
            /\ anchors'[l].indentation = anchors[l].indentation
            /\ Elements(heap', anchors'[l].tangled) = Elements(heap, anchors[l].tangled)
            /\ Cardinality(RefsTo(Elements(heap', tangled_section'), l))
                 = Cardinality(RefsTo(Elements(heap, tangled_section), l)) ]_vars

\* --------------------------------------------------------------------------
\* C3
\* --------------------------------------------------------------------------

\* C3: tangle_output never aborts: neither `expect` of lib.rs is reached.
C3_NeverAborts == pc # "panicked"

\* --------------------------------------------------------------------------
\* C4
\* --------------------------------------------------------------------------

\* The Before and After directives read so far whose label had not been
\* declared when they were processed.
MissingDirectives ==
  {p \in Positions :
     /\ IsDirective(LineAt(p))
     /\ ResultOf(LineAt(p)).anchor.op \in {"Before", "After"}
     /\ \A d \in DirectivesOf("Label", ResultOf(LineAt(p)).anchor.label) :
          ~PosLess(d, p)}

MissingTagErrors == {i \in 1..Len(errors) : errors[i].kind = "MissingTag"}

\* The block that follows the directive at p sits in the root sequence.
InRoot(p) ==
  \E i \in 1..tangled.len :
    LET knot == Elements(heap, tangled)[i]
    IN  /\ knot.left
        /\ knot.block.lines = BlockAfter(p)
        /\ knot.block.file = Names[p[1]]

\* A Before or After directive on a label the map does not hold leaves what
\* an Insert directive leaves, and one more MissingTag error.
C4_Step ==
  (/\ ReadsDirective({"Before", "After"})
   /\ ResultOf(JustRead).anchor.label \notin DOMAIN anchors) =>
    LET p == push_block(heap, tangled_section, block)
        e == emplace_section(p.heap, tangled, anchors, state, p.self)
    IN  /\ errors' = Append(errors,
                       MissingTag(Names[Len(inputs)],
                                  Len(inputs'[Len(inputs')].lines),
                                  ResultOf(JustRead).anchor.label))
        /\ state' = TargetInsert
        /\ heap' = e.heap /\ tangled' = e.tangled /\ anchors' = e.anchors
        /\ tangled_section' = List_new
        /\ pc' = pc

\* Every such directive has left exactly one MissingTag error, and once its
\* stream is exhausted the block that followed it sits in the root sequence.
C4_State ==
  /\ pc \in {"inputs", "lines"} =>
       Cardinality(MissingTagErrors) = Cardinality(MissingDirectives)
  /\ pc = "inputs" =>
       \A p \in MissingDirectives : BlockAfter(p) # <<>> => InRoot(p)

\* C4: a Before(l) or After(l) directive whose label is not in the anchor map
\* records exactly one MissingTag error (stream, line, label) and forces the
\* state to Insert, so that the block after it goes to the root sequence.
C4_MissingTagAsInsert == []C4_State /\ [][C4_Step]_vars

C4_Witness ==
  /\ pc = "inputs"
  /\ \E p \in MissingDirectives : BlockAfter(p) # <<>> /\ InRoot(p)
  /\ MissingTagErrors # {}

\* --------------------------------------------------------------------------
\* C5 and C6
\* --------------------------------------------------------------------------

\* The label l is declared exactly once in what has been read.
DeclaredOnce(l) == Cardinality(DirectivesOf("Label", l)) = 1

\* The declaration of a label declared once.
Declaration(l) == CHOOSE d \in DirectivesOf("Label", l) : TRUE

\* l is declared once and no other label is declared.
OnlyLabel(l) ==
  /\ DeclaredOnce(l)
  /\ \A m \in Labels \ {l} : DirectivesOf("Label", m) = {}

\* The directives with operator op on l that come after l's declaration.
Attaching(op, l) ==
  {p \in DirectivesOf(op, l) : PosLess(Declaration(l), p)}

\* None of them is followed by a Label directive before the next Insert,
\* Before or After directive: each is followed by at most one block.
OneBlockEach(op, l) ==
  \A p \in Attaching(op, l) :
    SectionEnd(p) <= Len(inputs[p[1]].lines) =>
      ResultOf(inputs[p[1]].lines[SectionEnd(p)]).anchor.op # "Label"

\* Those of them that are followed by a non-empty block, in reading order,
\* and the blocks B1..BN that follow them.
Attached(op, l) == InOrder({p \in Attaching(op, l) : BlockAfter(p) # <<>>})

AttachedBlocks(op, l) ==
  LET ps == Attached(op, l)
  IN  [i \in 1..Len(ps) |-> [lines |-> BlockAfter(ps[i]), file |-> Names[ps[i][1]]]]

\* The children of the anchor l, front to back.
Children(l) == Elements(heap, anchors[l].tangled)

\* The knots ks are exactly the blocks bs, in that order.
AreBlocks(ks, bs) ==
  /\ Len(ks) = Len(bs)
  /\ \A i \in 1..Len(ks) :
       /\ ks[i].left
       /\ ks[i].block.lines = bs[i].lines
       /\ ks[i].block.file = bs[i].file

\* The number of kept lines read before position d.
KeptBefore(d) ==
  Cardinality({p \in Positions : PosLess(p, d) /\ IsKept(LineAt(p))})

\* The lines of the blocks bs, each behind n spaces.
Indented(bs, n) ==
  Flatten([i \in 1..Len(bs) |->
             [k \in 1..Len(bs[i].lines) |-> Spaces(n) \o bs[i].lines[k]]])

\* The column of the first character of a line that is not a space.
RECURSIVE LeadingSpaces(_)
LeadingSpaces(text) ==
  IF text # <<>> /\ Head(text) = " " THEN 1 + LeadingSpaces(Tail(text)) ELSE 0

\* The output lines from..from+Len(run)-1 are the lines run.
RunAt(run, from) ==
  /\ from + Len(run) - 1 <= Len(lines)
  /\ SubSeq(lines, from, from + Len(run) - 1) = run

\* The total number of lines of the blocks bs.
NumLines(bs) == Len(Indented(bs, 0))

\* C5: for a label L declared once, N >= 2 Before(L) directives after the
\* declaration, each followed by one non-empty block B1..BN: the children of
\* L start with BN, ..., B1, and when L is the only label the output holds
\* these blocks in that order where L was declared.
C5_BeforeReversed ==
  pc \in {"inputs", "done"} =>
    \A l \in Labels :
      (DeclaredOnce(l) /\ OneBlockEach("Before", l)) =>
        LET bs == Reverse(AttachedBlocks("Before", l))
            kids == Children(l)
        IN  Len(bs) >= 2 =>
              /\ pc = "inputs" =>
                   /\ l \in DOMAIN anchors
                   /\ Len(kids) >= Len(bs)
                   /\ AreBlocks(SubSeq(kids, 1, Len(bs)), bs)
              /\ (pc = "done" /\ ~options.comment.some /\ OnlyLabel(l)) =>
                   RunAt(Indented(bs, LeadingSpaces(LineAt(Declaration(l)).text)),
                         KeptBefore(Declaration(l)) + 1)

C5_Witness ==
  /\ pc = "done" /\ ~options.comment.some
  /\ OnlyLabel(LabelBody) /\ OneBlockEach("Before", LabelBody)
  /\ Len(AttachedBlocks("Before", LabelBody)) = 3
  /\ AttachedBlocks("Before", LabelBody)[1].lines # AttachedBlocks("Before", LabelBody)[3].lines
  /\ RunAt(Indented(Reverse(AttachedBlocks("Before", LabelBody)), 0),
           KeptBefore(Declaration(LabelBody)) + 1)

\* C6: for a label L declared once, N After(L) directives after the
\* declaration, each followed by one non-empty block B1..BN: the children of
\* L end with B1, ..., BN, and when L is the only label the output holds
\* these blocks in that order where L was declared, behind the Before blocks.
C6_AfterInOrder ==
  pc \in {"inputs", "done"} =>
    \A l \in Labels :
      (DeclaredOnce(l) /\ OneBlockEach("After", l)) =>
        LET bs == AttachedBlocks("After", l)
            kids == Children(l)
        IN  Len(bs) >= 1 =>
              /\ pc = "inputs" =>
                   /\ l \in DOMAIN anchors
                   /\ Len(kids) >= Len(bs)
                   /\ AreBlocks(SubSeq(kids, Len(kids) - Len(bs) + 1, Len(kids)), bs)
              /\ (pc = "done" /\ ~options.comment.some /\ OnlyLabel(l)) =>
                   RunAt(Indented(bs, LeadingSpaces(LineAt(Declaration(l)).text)),
                         KeptBefore(Declaration(l))
                           + NumLines(AttachedBlocks("Before", l)) + 1)

C6_Witness ==
  /\ pc = "done" /\ ~options.comment.some
  /\ OnlyLabel(LabelBody) /\ OneBlockEach("After", LabelBody)
  /\ Len(AttachedBlocks("After", LabelBody)) = 3
  /\ AttachedBlocks("After", LabelBody)[1].lines # AttachedBlocks("After", LabelBody)[3].lines
  /\ RunAt(Indented(AttachedBlocks("After", LabelBody), 0),
           KeptBefore(Declaration(LabelBody)) + 1)

\* --------------------------------------------------------------------------
\* C7
\* --------------------------------------------------------------------------

\* Every line read decodes and none is a directive.
NoDirectives ==
  \A p \in Positions : LineAt(p).ok /\ ~IsDirective(LineAt(p))

\* The texts of all lines read, in stream order and line order.
AllTexts == LET ps == InOrder(Positions) IN [i \in 1..Len(ps) |-> LineAt(ps[i]).text]

\* The lines read that hold an anchor candidate that does not parse, in
\* reading order.
MalformedLines ==
  InOrder({p \in Positions : ResultOf(LineAt(p)).kind = "ErrSome"})

\* One MalformedAnchor warning for each of them.
MalformedWarnings ==
  LET ps == MalformedLines
  IN  [i \in 1..Len(ps) |->
         MalformedAnchor(Names[ps[i][1]], ps[i][2], ResultOf(LineAt(ps[i])).found)]

\* C7 as stated: input without directives whose lines all decode comes out
\* unchanged, with an empty error list.
C7_PassThroughNoErrors ==
  (pc = "done" /\ ~options.comment.some /\ NoDirectives) =>
    /\ lines = AllTexts
    /\ errors = <<>>

\* C7 amended: input without directives whose lines all decode comes out
\* unchanged, line by line in stream order; the error list holds one
\* MalformedAnchor warning for each line with an anchor candidate that does
\* not parse, and nothing else.
C7_PassThrough ==
  (pc = "done" /\ ~options.comment.some /\ NoDirectives) =>
    /\ lines = AllTexts
    /\ errors = MalformedWarnings

C7_Witness ==
  /\ pc = "done" /\ ~options.comment.some /\ NoDirectives
  /\ Len(inputs) = 2 /\ inputs[1].lines # <<>> /\ inputs[2].lines # <<>>
  /\ Len(MalformedLines) = 1
  /\ lines = AllTexts

\* --------------------------------------------------------------------------
\* C8 and C9
\* --------------------------------------------------------------------------

\* The loop of the innermost call of collect_anchor_lines is at a block.
AtBlock ==
  /\ pc = "collect"
  /\ stack[Len(stack)].tangled.len > 0
  /\ heap.nodes[stack[Len(stack)].tangled.front].data.left

\* That block.
BlockAtHand == heap.nodes[stack[Len(stack)].tangled.front].data.block

\* The lines of block b behind n spaces.
IndentedLines(b, n) == [k \in 1..Len(b.lines) |-> Spaces(n) \o b.lines[k]]

\* The provenance line "<c> '<origin>', line <N>" behind n spaces.
Provenance(c, b, n) ==
  Spaces(n) \o c \o <<" ", "'">> \o b.file \o <<"'", ",", " ">>
    \o <<"l", "i", "n", "e", " ">> \o FormatUsize(b.lineno)

\* C8: a block that sits in the root sequence is emitted without a header
\* line, whether a comment leader is configured or not.
C8_RootBlocksWithoutHeader ==
  [][ (AtBlock /\ Len(stack) = 1) =>
        lines' = lines \o IndentedLines(BlockAtHand, 0) ]_vars

\* C9: with a comment leader c, a block emitted inside an anchor is preceded
\* by exactly one line "<c> '<origin>', line <N>" behind the indentation of
\* the call, N being the line number the block records; with no comment
\* leader the lines of a block are emitted and nothing else.
C9_ProvenanceHeader ==
  [][ AtBlock =>
        LET n == stack[Len(stack)].indentation
        IN  /\ (options.comment.some /\ Len(stack) > 1) =>
                 lines' = lines
                            \o << Provenance(options.comment.prefix, BlockAtHand, n) >>
                            \o IndentedLines(BlockAtHand, n)
            /\ ~options.comment.some =>
                 lines' = lines \o IndentedLines(BlockAtHand, n) ]_vars

\* The block after ##[before(Body)] on line 1 of stream B has been emitted
\* inside the anchor Body behind its header.
C9_Witness ==
  /\ options.comment.some
  /\ Len(stack) = 2
  /\ Len(lines) >= 2
  /\ lines[Len(lines) - 1]
       = <<"/", "/", " ", "'", "B", "'", ",", " ", "l", "i", "n", "e", " ", "1">>
  /\ lines[Len(lines)] \in {TextZ, TextW}

\* --------------------------------------------------------------------------
\* C10
\* --------------------------------------------------------------------------

\* The blocks placed in the forest: the data of the nodes of the root
\* sequence, of the pending section and of the children of the anchors.
ForestBlocks ==
  {heap.nodes[n].data.block : n \in {m \in DOMAIN heap.nodes : heap.nodes[m].data.left}}

\* The stream a block comes from.
StreamOf(b) == CHOOSE s \in 1..Len(inputs) : inputs[s].name = b.file

\* Line k of stream s is the first line of a block: it is kept, and every
\* kept line before it is separated from it by a directive.
FirstLineOfBlock(s, k) ==
  /\ k \in 1..Len(inputs[s].lines)
  /\ IsKept(inputs[s].lines[k])
  /\ \A j \in 1..(k - 1) :
       IsKept(inputs[s].lines[j]) =>
         \E m \in (j + 1)..(k - 1) : IsDirective(inputs[s].lines[m])

\* Every line read so far decodes.
AllDecode == \A p \in Positions : LineAt(p).ok

\* C10: every block in the forest records the 1-based line number of its
\* first line; stated for streams whose lines all decode, where no dropped
\* line stands between a directive and the block after it.
C10_BlockLineNumber ==
  (pc \in {"inputs", "lines"} /\ AllDecode) =>
    \A b \in ForestBlocks :
      /\ FirstLineOfBlock(StreamOf(b), b.lineno)
      /\ inputs[StreamOf(b)].lines[b.lineno].text = b.lines[1]

\* --------------------------------------------------------------------------
\* C11
\* --------------------------------------------------------------------------

\* No label is declared twice in what has been read.
DeclaredAtMostOnce == \A l \in Labels : Cardinality(DirectivesOf("Label", l)) <= 1

\* The root of the forest, as the place a line or a reference goes to.
Root == <<>>

\* The place the lines and references read at position p go to: the label of
\* the last Before or After directive before p in p's stream when that label
\* had been declared by then, the root otherwise.
TargetAt(p) ==
  LET ls == inputs[p[1]].lines
      ds == {k \in 1..(p[2] - 1) :
               /\ IsDirective(ls[k])
               /\ ResultOf(ls[k]).anchor.op \in {"Insert", "Before", "After"}}
  IN  IF ds = {} THEN Root
      ELSE LET k == CHOOSE j \in ds : \A i \in ds : i <= j
               a == ResultOf(ls[k]).anchor
           IN  IF /\ a.op \in {"Before", "After"}
                  /\ \E d \in DirectivesOf("Label", a.label) : PosLess(d, <<p[1], k>>)
               THEN a.label
               ELSE Root

\* The sum of the columns at which the anchors on the chain from the root to
\* the place t are declared.
RECURSIVE ChainIndentation(_)
ChainIndentation(t) ==
  IF t = Root THEN 0
  ELSE LeadingSpaces(LineAt(Declaration(t)).text)
         + ChainIndentation(TargetAt(Declaration(t)))

\* The positions of the kept lines read.
KeptPositions == {p \in Positions : IsKept(LineAt(p))}

\* The output line the kept line at p is to come out as.
Expected(p) == Spaces(ChainIndentation(TargetAt(p))) \o LineAt(p).text

\* An output line that is the provenance header of a block.
IsHeaderLine(t) ==
  /\ options.comment.some
  /\ StartsWith(Drop(t, LeadingSpaces(t)), options.comment.prefix \o <<" ", "'">>)

\* The output lines that are lines of blocks.
BlockLines == SelectSeq(lines, LAMBDA t : ~IsHeaderLine(t))

\* C11: indentation is cumulative across nested anchors: the lines of the
\* blocks come out, each as often as it was read, behind as many spaces as
\* the columns of the declarations of the anchors on its chain add up to;
\* lines of the root get no prefix.
C11_CumulativeIndentation ==
  (pc = "done" /\ DeclaredAtMostOnce) =>
    LET out == BlockLines
        want == {Expected(p) : p \in KeptPositions}
    IN  /\ Len(out) = Cardinality(KeptPositions)
        /\ \A v \in want \cup {out[i] : i \in 1..Len(out)} :
             Cardinality({i \in 1..Len(out) : out[i] = v})
               = Cardinality({p \in KeptPositions : Expected(p) = v})

\* The nested input has been tangled: x comes out at column 0, y inside b at
\* column 2 and z inside Body inside b at column 6.
C11_Witness ==
  /\ pc = "done"
  /\ Len(inputs) = 1 /\ Len(inputs[1].lines) = Len(NestedLines)
  /\ inputs[1].lines[5] = OkLine(<<" ", " ", " ", " ">> \o TextLabel(LabelBody))
  /\ BlockLines = <<TextX, Spaces(2) \o TextY, Spaces(6) \o TextZ, TextW>>

\* --------------------------------------------------------------------------
\* C12
\* --------------------------------------------------------------------------

\* The Before and After directives read that were processed before any
\* declaration of their label and whose label is declared further on.
ForwardDirectives ==
  {p \in MissingDirectives :
     DirectivesOf("Label", ResultOf(LineAt(p)).anchor.label) # {}}

\* The label of the directive at p.
LabelAt(p) == ResultOf(LineAt(p)).anchor.label

\* The block that follows the directive at p is a child of the anchor l.
IsChildOf(p, l) ==
  /\ l \in DOMAIN anchors
  /\ \E i \in 1..anchors[l].tangled.len :
       LET knot == Children(l)[i]
       IN  /\ knot.left
           /\ knot.block.lines = BlockAfter(p)
           /\ knot.block.file = Names[p[1]]

\* A Before or After directive read while no declaration of its label has
\* been read leaves the state Insert and one more MissingTag error; the
\* declaration of a label that such a directive has named makes a new anchor
\* without children and leaves the root sequence, the state and the errors.
C12_Step ==
  /\ (/\ ReadsDirective({"Before", "After"})
      /\ DirectivesOf("Label", ResultOf(JustRead).anchor.label) = {}) =>
       /\ state' = TargetInsert
       /\ errors' = Append(errors,
                      MissingTag(Names[Len(inputs)],
                                 Len(inputs[Len(inputs)].lines) + 1,
                                 ResultOf(JustRead).anchor.label))
  /\ (/\ ReadsDirective({"Label"})
      /\ \E p \in MissingDirectives : LabelAt(p) = ResultOf(JustRead).anchor.label) =>
       /\ anchors'[ResultOf(JustRead).anchor.label].tangled = List_new
       /\ tangled' = tangled
       /\ state' = state
       /\ errors' = errors

\* Between two streams every such directive has its MissingTag error exactly
\* once, and the block after it sits in the root sequence and is no child of
\* its label.
C12_State ==
  pc = "inputs" =>
    \A p \in ForwardDirectives :
      /\ Cardinality({i \in 1..Len(errors) :
                        errors[i] = MissingTag(Names[p[1]], p[2], LabelAt(p))}) = 1
      /\ BlockAfter(p) # <<>> => (InRoot(p) /\ ~IsChildOf(p, LabelAt(p)))

\* C12: a Before(l) or After(l) directive processed before any Label(l) is
\* treated as missing (MissingTag error, state Insert) even when l is
\* declared later in the same stream or in a later stream, and the later
\* declaration does not attach the directive's block to l.
C12_ForwardReferenceMissing == []C12_State /\ [][C12_Step]_vars

\* A directive on Body followed by a block in stream A, Body declared in
\* stream B: the block sits in the root sequence and Body has no children.
C12_Witness ==
  /\ pc = "inputs" /\ Len(inputs) = 2
  /\ \E p \in ForwardDirectives :
       /\ p[1] = 1
       /\ Declaration(LabelAt(p))[1] = 2
       /\ BlockAfter(p) # <<>>
       /\ InRoot(p)
       /\ LabelAt(p) \in DOMAIN anchors
       /\ ~IsChildOf(p, LabelAt(p))
       /\ \E i \in 1..Len(errors) : errors[i] = MissingTag(Names[1], p[2], LabelAt(p))

\* --------------------------------------------------------------------------
\* C13
\* --------------------------------------------------------------------------

\* The line holds an anchor candidate, and the candidate does not parse.
HasBadCandidate(line) ==
  /\ line.ok
  /\ might_be_anchor(line.text).found
  /\ ~parse(might_be_anchor(line.text).text).ok

\* The number of the line the step reads, counted from 1 in its stream.
NumberJustRead == Len(inputs[Len(inputs)].lines) + 1

\* C13: a line with an anchor candidate that does not parse is appended to
\* the block being accumulated, one MalformedAnchor warning (stream, line
\* number, candidate text) is recorded, and the pending section, the state
\* and the forest are left as they are.
C13_MalformedKept ==
  [][ (ReadsALine /\ HasBadCandidate(JustRead)) =>
        /\ block' = [block EXCEPT !.lines = Append(block.lines, JustRead.text)]
        /\ errors' = Append(errors,
                       [kind |-> "MalformedAnchor",
                        file |-> inputs[Len(inputs)].name,
                        lineno |-> NumberJustRead,
                        text |-> might_be_anchor(JustRead.text).text])
        /\ state' = state
        /\ tangled_section' = tangled_section
        /\ <<heap', tangled', anchors'>> = <<heap, tangled, anchors>>
        /\ pc' = "lines" ]_vars

\* "x ##[insert(b)] y" has been read on line 4 behind ##[after(Body)] and x,
\* and y after it: the block holds the three lines, the state is After(Body)
\* and the warning carries the candidate ##[insert(b)].
C13_Witness ==
  /\ pc = "lines"
  /\ state = TargetAfter(LabelBody)
  /\ block.lines = <<TextX, TextInsertArg, TextY>>
  /\ errors = << [kind |-> "MalformedAnchor", file |-> <<"A">>, lineno |-> 4,
                  text |-> CandidateInsertArg] >>

\* --------------------------------------------------------------------------
\* C14
\* --------------------------------------------------------------------------

\* The error the line at position p leaves when it is read, for the lines
\* that leave one whatever was read before them.
LineError(p) ==
  IF ~LineAt(p).ok
  THEN [kind |-> "NotUTF8", file |-> Names[p[1]], lineno |-> p[2], text |-> <<>>]
  ELSE [kind |-> "MalformedAnchor", file |-> Names[p[1]], lineno |-> p[2],
        text |-> might_be_anchor(LineAt(p).text).text]

\* The positions of the lines that do not decode or do not parse.
BrokenPositions ==
  {p \in Positions : ~LineAt(p).ok \/ HasBadCandidate(LineAt(p))}

\* The errors recorded that are not MissingTag errors.
LineErrors == SelectSeq(errors, LAMBDA e : e.kind # "MissingTag")

\* A line that does not decode leaves one NotUTF8 error with the name of the
\* stream and the number of the line, and nothing else.
C14_Step ==
  (ReadsALine /\ ~JustRead.ok) =>
    /\ errors' = Append(errors,
                   [kind |-> "NotUTF8", file |-> inputs[Len(inputs)].name,
                    lineno |-> NumberJustRead, text |-> <<>>])
    /\ block' = block
    /\ state' = state
    /\ tangled_section' = tangled_section
    /\ <<heap', tangled', anchors'>> = <<heap, tangled, anchors>>
    /\ lineno' = NumberJustRead
    /\ pc' = "lines"

\* The errors of the lines carry the numbers the lines have in their
\* streams, dropped lines counted; a dropped line is in no block of the
\* forest and adds no line to the output.
C14_State ==
  /\ pc \in {"inputs", "lines", "done"} =>
       LET ps == InOrder(BrokenPositions)
       IN  LineErrors = [i \in 1..Len(ps) |-> LineError(ps[i])]
  /\ pc \in {"inputs", "lines"} =>
       \A b \in ForestBlocks \cup {block} :
         \A i \in 1..Len(b.lines) :
           \E p \in KeptPositions : Names[p[1]] = b.file /\ LineAt(p).text = b.lines[i]
  /\ (pc = "done" /\ DeclaredAtMostOnce) =>
       Len(BlockLines) = Cardinality(KeptPositions)

\* C14: a line that does not decode is dropped: it joins no block and adds
\* nothing to the output, one NotUTF8 error with the stream name and the
\* 1-based number of the line is recorded, the state stays, and the lines
\* after it keep their numbers.
C14_UndecodableDropped == []C14_State /\ [][C14_Step]_vars

\* Line 4 did not decode and line 5 holds a candidate that does not parse:
\* the block holds x and line 5, and the errors carry the numbers 4 and 5.
C14_Witness ==
  /\ pc = "lines"
  /\ state = TargetAfter(LabelBody)
  /\ block.lines = <<TextX, TextMalformed>>
  /\ Len(errors) = 2
  /\ errors[1].kind = "NotUTF8" /\ errors[1].lineno = 4 /\ errors[1].file = <<"A">>
  /\ errors[2].kind = "MalformedAnchor" /\ errors[2].lineno = 5

\* --------------------------------------------------------------------------
\* C15
\* --------------------------------------------------------------------------

\* A line that is an Insert directive.
IsInsertLine(line) == IsDirective(line) /\ ResultOf(line).anchor.op = "Insert"

\* Every directive of the input inp is an Insert directive.
OnlyInsertDirectives(inp) ==
  \A s \in 1..Len(inp) : \A k \in 1..Len(inp[s].lines) :
    IsDirective(inp[s].lines[k]) => IsInsertLine(inp[s].lines[k])

\* The input inp with every Insert directive removed.
WithoutInserts(inp) ==
  [s \in 1..Len(inp) |->
     [name |-> inp[s].name,
      lines |-> SelectSeq(inp[s].lines, LAMBDA l : ~IsInsertLine(l))]]

\* The texts of the kept lines of the input inp, in stream order and line
\* order.
KeptOf(inp) ==
  LET kept == SelectSeq(AllLinesOf(inp), IsKept)
  IN  [i \in 1..Len(kept) |-> kept[i].text]

\* C15: Insert directives are transparent. For an input whose only
\* directives are ##[insert] lines and no comment leader, the output is the
\* kept lines of the input in their order; the input without its ##[insert]
\* lines is an input of the same kind with the same kept lines, that the
\* model tangles as well, so that both come out as the same lines.
C15_InsertTransparent ==
  (pc = "done" /\ ~options.comment.some /\ OnlyInsertDirectives(inputs)) =>
    /\ lines = KeptOf(inputs)
    /\ OnlyInsertDirectives(WithoutInserts(inputs))
    /\ Admissible(WithoutInserts(inputs))
    /\ KeptOf(WithoutInserts(inputs)) = KeptOf(inputs)

\* x, ##[insert], ##[insert], y has been tangled and came out as x, y.
C15_Witness ==
  /\ pc = "done" /\ ~options.comment.some
  /\ Len(inputs) = 1
  /\ inputs[1].lines
       = <<OkLine(TextX), OkLine(TextInsert), OkLine(TextInsert), OkLine(TextY)>>
  /\ WithoutInserts(inputs)[1].lines = <<OkLine(TextX), OkLine(TextY)>>
  /\ lines = <<TextX, TextY>>

\* --------------------------------------------------------------------------
\* Reading a list back from its nodes
\* --------------------------------------------------------------------------

\* The data of the nodes met from node p on, following to_b (forward) or to_f
\* (backward) up to None; a pointer to a node that is not live ends the walk
\* with the mark None, and so does a walk longer than the heap.
RECURSIVE WalkFrom(_, _, _, _)
WalkFrom(h, p, forward, fuel) ==
  IF p = Null THEN <<>>
  ELSE IF p \notin DOMAIN h.nodes \/ fuel = 0 THEN <<None>>
  ELSE <<h.nodes[p].data>>
         \o WalkFrom(h, IF forward THEN h.nodes[p].to_b ELSE h.nodes[p].to_f,
                     forward, fuel - 1)

\* The elements of list l front to back, read off the nodes.
Held(h, l) == WalkFrom(h, l.front, TRUE, h.next)

\* The elements of list l back to front, read off the nodes.
HeldBackward(h, l) == WalkFrom(h, l.back, FALSE, h.next)

\* List l of heap h holds exactly the elements es in this order, whichever
\* way it is read, and its len is their number.
Holds(h, l, es) ==
  /\ Held(h, l) = es
  /\ HeldBackward(h, l) = Reverse(es)
  /\ Elements(h, l) = es
  /\ l.len = Len(es)

\* --------------------------------------------------------------------------
\* C16 and C17
\* --------------------------------------------------------------------------

\* C16: tangled.append_front(&mut tangled_section) leaves tangled holding the
\* former elements of tangled_section followed by its own former elements,
\* with the sum of both lengths, and tangled_section empty (len 0, front and
\* back None), whichever of the two lists was empty.
C16_AppendFront ==
  [][ (pc' = "append_front") =>
        /\ Holds(heap', tangled', Held(heap, tangled_section) \o Held(heap, tangled))
        /\ tangled'.len = tangled.len + tangled_section.len
        /\ tangled_section' = ListValue(Null, Null, 0) ]_vars

\* append_front has joined two lists: three elements, two of them the same
\* block, are held by tangled and none by tangled_section.
C16_Witness ==
  /\ pc = "append_front"
  /\ tangled.len = 3 /\ tangled_section.len = 0
  /\ Held(heap, tangled)[1] = Right(LabelBody)
  /\ Held(heap, tangled)[2] = Held(heap, tangled)[3]
  /\ Held(heap, tangled)[2].left

\* C17: tangled.append_back(&mut tangled_section) leaves tangled holding its
\* own former elements followed by the former elements of tangled_section,
\* with the sum of both lengths, and tangled_section empty (len 0, front and
\* back None), whichever of the two lists was empty.
C17_AppendBack ==
  [][ (pc' = "append_back") =>
        /\ Holds(heap', tangled', Held(heap, tangled) \o Held(heap, tangled_section))
        /\ tangled'.len = tangled.len + tangled_section.len
        /\ tangled_section' = ListValue(Null, Null, 0) ]_vars

\* append_back has joined two lists: three elements, two of them the same
\* block, are held by tangled and none by tangled_section.
C17_Witness ==
  /\ pc = "append_back"
  /\ tangled.len = 3 /\ tangled_section.len = 0
  /\ Held(heap, tangled)[3] = Right(LabelBody)
  /\ Held(heap, tangled)[1] = Held(heap, tangled)[2]
  /\ Held(heap, tangled)[1].left

\* --------------------------------------------------------------------------
\* C18
\* --------------------------------------------------------------------------

\* list.push_front(e) for every e of es in turn.
RECURSIVE PushAllFront(_, _, _)
PushAllFront(h, list, es) ==
  IF es = <<>> THEN [heap |-> h, self |-> list]
  ELSE LET r == push_front(h, list, Head(es))
       IN  PushAllFront(r.heap, r.self, Tail(es))

\* list.push_back(e) for every e of es in turn.
RECURSIVE PushAllBack(_, _, _)
PushAllBack(h, list, es) ==
  IF es = <<>> THEN [heap |-> h, self |-> list]
  ELSE LET r == push_back(h, list, Head(es))
       IN  PushAllBack(r.heap, r.self, Tail(es))

\* What list.into_iter() yields.
Yielded(h, list) == IntoIterAll(h, list).items

\* Whatever the lists hold: elements pushed at the back of a list come out
\* behind its elements in the order pushed, elements pushed at the front come
\* out before them in reverse order, and from_iter(es) yields es and has
\* len(es) elements.
C18_State ==
  \A es \in SeqsUpTo(NodesLeft) :
    /\ \A list \in {tangled, tangled_section} :
         /\ LET r == PushAllBack(heap, list, es)
            IN  Yielded(r.heap, r.self) = Held(heap, list) \o es
         /\ LET r == PushAllFront(heap, list, es)
            IN  Yielded(r.heap, r.self) = Reverse(es) \o Held(heap, list)
    /\ LET r == from_iter(heap, es)
       IN  Yielded(r.heap, r.self) = es /\ r.self.len = Len(es)

\* into_iter yields the elements the list holds, front to back, and leaves
\* it empty; one push adds one element at its end of one list.
C18_Step ==
  /\ (pc' = "into_iter") =>
       /\ lines' = Held(heap, tangled)
       /\ Holds(heap', tangled', <<>>)
  /\ (pc' = "push_back") =>
       \E e \in Knots :
         \/ Holds(heap', tangled', Append(Held(heap, tangled), e))
              /\ tangled_section' = tangled_section
         \/ Holds(heap', tangled_section', Append(Held(heap, tangled_section), e))
              /\ tangled' = tangled
  /\ (pc' = "push_front") =>
       \E e \in Knots :
         \/ Holds(heap', tangled', <<e>> \o Held(heap, tangled))
              /\ tangled_section' = tangled_section
         \/ Holds(heap', tangled_section', <<e>> \o Held(heap, tangled_section))
              /\ tangled' = tangled
  /\ (pc' = "from_iter") =>
       \E es \in SeqsUpTo(NodesLeft) : Holds(heap', tangled_section', es)

\* C18: iteration front to back (into_iter) yields the elements in list
\* order: push_back elements in the order pushed, push_front elements in
\* reverse order, and List::from_iter(seq) yields seq, with len the length
\* of seq.
C18_IterationOrder == []C18_State /\ [][C18_Step]_vars

\* A list of three different elements has been drained in its order.
C18_Witness ==
  /\ pc = "into_iter"
  /\ lines = << Right(LabelBody),
                Left([lines |-> <<TextX>>, file |-> <<"A">>, lineno |-> 1]),
                Left([lines |-> <<TextY>>, file |-> <<"A">>, lineno |-> 2]) >>
  /\ tangled = List_new

\* --------------------------------------------------------------------------
\* C19
\* --------------------------------------------------------------------------

\* The number of nodes reached from node p through to_b.
RECURSIVE CountFrom(_, _, _)
CountFrom(h, p, fuel) ==
  IF p = Null THEN 0
  ELSE IF p \notin DOMAIN h.nodes \/ fuel = 0 THEN 1
  ELSE 1 + CountFrom(h, h.nodes[p].to_b, fuel - 1)

\* C19: whatever operations have been applied, the len of each list is the
\* number of nodes reached from its front, and is_empty tells whether that
\* number is 0.
C19_LenCountsNodes ==
  \A list \in {tangled, tangled_section} :
    /\ list.len = CountFrom(heap, list.front, heap.next)
    /\ is_empty(list) <=> (CountFrom(heap, list.front, heap.next) = 0)

\* pop_back has shortened a list: one list holds two elements and the
\* other one.
C19_Witness ==
  /\ pc = "pop_back" /\ lines # <<>>
  /\ tangled.len = 2 /\ CountFrom(heap, tangled.front, heap.next) = 2
  /\ tangled_section.len = 1 /\ ~is_empty(tangled_section)

\* --------------------------------------------------------------------------
\* C20
\* --------------------------------------------------------------------------

\* The step pops list `before`, which becomes `after`, at its front
\* (front = TRUE) or at its back, as the claim has it.
PopsAsClaimed(before, after, front) ==
  LET old == Held(heap, before)
  IN  IF old = <<>>
      THEN /\ lines' = <<>>
           /\ after = before /\ before.len = 0
           /\ heap' = heap
      ELSE /\ lines' = << IF front THEN Head(old) ELSE old[Len(old)] >>
           /\ Holds(heap', after,
                    IF front THEN Tail(old) ELSE SubSeq(old, 1, Len(old) - 1))
           /\ after.len = before.len - 1

\* C20: pop_front removes and returns the first element of a list and
\* pop_back the last, the other elements stay in their order and len goes
\* down by 1; on an empty list both return None and leave the list as it
\* is, with len 0.
C20_Pops ==
  [][ /\ (pc' = "pop_front") =>
           \/ PopsAsClaimed(tangled, tangled', TRUE)
                /\ tangled_section' = tangled_section
           \/ PopsAsClaimed(tangled_section, tangled_section', TRUE)
                /\ tangled' = tangled
      /\ (pc' = "pop_back") =>
           \/ PopsAsClaimed(tangled, tangled', FALSE)
                /\ tangled_section' = tangled_section
           \/ PopsAsClaimed(tangled_section, tangled_section', FALSE)
                /\ tangled' = tangled ]_vars

\* pop_front has returned the reference at the front of a list of three,
\* which holds the two blocks after it.
C20_Witness ==
  /\ pc = "pop_front"
  /\ lines = << Right(LabelBody) >>
  /\ Held(heap, tangled)
       = << Left([lines |-> <<TextX>>, file |-> <<"A">>, lineno |-> 1]),
            Left([lines |-> <<TextY>>, file |-> <<"A">>, lineno |-> 2]) >>
  /\ tangled.len = 2

\* --------------------------------------------------------------------------
\* C21
\* --------------------------------------------------------------------------

\* C21: once a Label directive has been processed the state is Insert,
\* whatever it was before: Before(t) and After(t) do not survive it.
C21_LabelResetsState ==
  [][ ReadsDirective({"Label"}) => state' = TargetInsert ]_vars

\* --------------------------------------------------------------------------
\* C22
\* --------------------------------------------------------------------------

\* The positions of the Label directives read.
LabelPositions ==
  {p \in Positions : IsDirective(LineAt(p)) /\ ResultOf(LineAt(p)).anchor.op = "Label"}

\* The position of the Insert, Before or After directive in force at
\* position p, line 0 of p's stream when there is none.
RoutingAt(p) ==
  LET ds == {k \in 1..(p[2] - 1) :
               /\ IsDirective(inputs[p[1]].lines[k])
               /\ ResultOf(inputs[p[1]].lines[k]).anchor.op # "Label"}
  IN  IF ds = {} THEN <<p[1], 0>>
      ELSE <<p[1], CHOOSE j \in ds : \A i \in ds : i <= j>>

\* The side of its target a section that holds position p is attached on.
SideAt(p) ==
  IF TargetAt(p) = Root THEN "Insert"
  ELSE ResultOf(LineAt(RoutingAt(p))).anchor.op

\* The place in the input a knot of the forest comes from: the directive (or
\* the beginning of the stream) a block follows, the declaration a reference
\* was made by.
KnotOrigin(knot) ==
  IF knot.left THEN <<StreamOf(knot.block), knot.block.lineno>>
  ELSE Declaration(knot.name)

\* The elements of the place t: the root sequence or the children of t.
HeldAt(t) ==
  IF t = Root THEN Held(heap, tangled) ELSE Held(heap, anchors[t].tangled)

\* The places of the forest: the root and the labels of the anchor map.
Places == {Root} \cup DOMAIN anchors

\* C22: between two streams and with every label declared once, the
\* reference made by a Label(l) directive is held once, by the routing target
\* in force when the directive was read: in state Insert by the root
\* sequence, behind everything read before the directive; in state After(t)
\* by the children of t, behind everything read before the directive; in
\* state Before(t) by the children of t, in front of everything t held
\* before the Before directive.
C22_ReferenceAtTarget ==
  (pc = "inputs" /\ DeclaredAtMostOnce) =>
    \A d \in LabelPositions :
      LET ref == Right(LabelAt(d))
          t == TargetAt(d)
          home == HeldAt(t)
          at == {i \in 1..Len(home) : home[i] = ref}
      IN  /\ t \in Places
          /\ Cardinality(at) = 1
          /\ \A u \in Places \ {t} : \A i \in 1..Len(HeldAt(u)) : HeldAt(u)[i] # ref
          /\ \A i \in at : \A j \in 1..Len(home) :
               IF SideAt(d) = "Before"
               THEN PosLess(KnotOrigin(home[j]), RoutingAt(d)) => j > i
               ELSE PosLess(KnotOrigin(home[j]), d) => j < i

\* The routed input with ##[before(Body)] on line 4 has been read: the
\* children of Body are y, the reference to b, z and then x, which Body held
\* before.
C22_Witness ==
  /\ pc = "inputs" /\ DeclaredAtMostOnce
  /\ LabelBody \in DOMAIN anchors
  /\ Len(HeldAt(LabelBody)) = 4
  /\ HeldAt(LabelBody)[2] = Right(LabelB)
  /\ HeldAt(LabelBody)[4].block.lines = <<TextX>>
  /\ HeldAt(Root) = <<Right(LabelBody)>>

\* --------------------------------------------------------------------------
\* C23
\* --------------------------------------------------------------------------

\* C23: during assembly every reference met names a label the anchor map
\* still holds, so that no label is removed twice and the expect of
\* collect_anchor_lines never fails; when assembly is over every label has
\* been removed.
C23_RemovedOnce ==
  /\ pc # "panicked"
  /\ (pc = "collect" /\ NextKnot.some /\ ~NextKnot.data.left) =>
       NextKnot.data.name \in DOMAIN anchors
  /\ pc = "done" => anchors = <<>>

\* --------------------------------------------------------------------------
\* C24
\* --------------------------------------------------------------------------

\* The labels the references among the knots ks name.
Referenced(ks) == {ks[i].name : i \in {j \in 1..Len(ks) : ~ks[j].left}}

\* C24: all through the tangle pass and at its end, the references held by
\* the root sequence, by the pending section and by the children of every
\* anchor node name labels of the anchor map.
C24_ReferencesDeclared ==
  pc \in {"inputs", "lines"} =>
    /\ Referenced(Held(heap, tangled_section)) \subseteq DOMAIN anchors
    /\ \A t \in Places : Referenced(HeldAt(t)) \subseteq DOMAIN anchors

\* Inside a stream, the root sequence refers to Body and the pending section
\* to b, which Body will hold; both are in the anchor map.
C24_Witness ==
  /\ pc = "lines"
  /\ Referenced(HeldAt(Root)) = {LabelBody}
  /\ Referenced(Held(heap, tangled_section)) = {LabelB}
  /\ state = TargetBefore(LabelBody)
  /\ DOMAIN anchors = {LabelBody, LabelB}

\* --------------------------------------------------------------------------
\* C25
\* --------------------------------------------------------------------------

\* The blocks among the knots ks.
BlocksOf(ks) == {ks[i].block : i \in {j \in 1..Len(ks) : ks[j].left}}

\* C25: every block of the root sequence, of the pending section, of the
\* children of an anchor node and of a sequence under assembly holds at least
\* one line.
C25_NoEmptyBlock ==
  /\ \A b \in ForestBlocks : Len(b.lines) >= 1
  /\ \A b \in BlocksOf(Held(heap, tangled_section)) : Len(b.lines) >= 1
  /\ pc \in {"inputs", "lines"} =>
       \A t \in Places : \A b \in BlocksOf(HeldAt(t)) : Len(b.lines) >= 1

\* Stream A is ##[insert], x, ##[insert], ##[insert] and stream B is empty:
\* a directive on the first line, two directives in a row, a directive on the
\* last line and an empty stream have added nothing to the one block x.
C25_Witness ==
  /\ pc = "inputs"
  /\ Len(inputs) = 2
  /\ inputs[1].lines = <<OkLine(TextInsert), OkLine(TextX), OkLine(TextInsert), OkLine(TextInsert)>>
  /\ inputs[2].lines = <<>>
  /\ Cardinality(ForestBlocks) = 1
  /\ Len(HeldAt(Root)) = 1

\* --------------------------------------------------------------------------
\* C30
\* --------------------------------------------------------------------------

\* The pending unit: the knots of the pending section followed by the block
\* being read, when it has lines.
PendingUnit ==
  Held(heap, tangled_section)
    \o (IF block.lines # <<>> THEN <<Left(block)>> ELSE <<>>)

\* The step ends a section: it processes an Insert, Before or After
\* directive or reaches the end of the stream.
EndsSection ==
  \/ ReadsDirective({"Insert", "Before", "After"})
  \/ pc = "lines" /\ pc' = "inputs"

\* The elements of the place t after the step.
HeldAtNext(t) ==
  IF t = Root THEN Held(heap', tangled') ELSE Held(heap', anchors'[t].tangled)

\* C30: the blocks and references read since the last Insert, Before or
\* After directive (or the beginning of the stream) stay together, in the
\* order they were read in: a Label directive adds its reference to the
\* pending unit and moves nothing; the step that ends the section attaches
\* the whole unit to the target of the state, in front of the target's
\* children for Before, behind them for After, behind the root sequence for
\* Insert, and changes no other place.
C30_SectionAsUnit ==
  [][ /\ EndsSection =>
         LET t == IF state.target = "Insert" THEN Root ELSE state.name
         IN  /\ t \in Places
             /\ HeldAtNext(t) = IF state.target = "Before"
                                THEN PendingUnit \o HeldAt(t)
                                ELSE HeldAt(t) \o PendingUnit
             /\ DOMAIN anchors' = DOMAIN anchors
             /\ \A u \in Places \ {t} : HeldAtNext(u) = HeldAt(u)
             /\ Held(heap', tangled_section') = <<>>
      /\ ReadsDirective({"Label"}) =>
         /\ Held(heap', tangled_section')
              = PendingUnit \o <<Right(ResultOf(JustRead).anchor.label)>>
         /\ Held(heap', tangled') = Held(heap, tangled)
         /\ state' = state
    ]_vars

\* Under Before(Body), with Body holding x, the block y, the declaration of b
\* and the block z have been read and ##[after(b)] has ended the section:
\* Body holds y, the reference to b, z and x, and the root only the
\* reference to Body.
C30_Witness ==
  /\ pc = "lines"
  /\ state = TargetAfter(LabelB)
  /\ Held(heap, tangled_section) = <<>>
  /\ LabelBody \in DOMAIN anchors
  /\ Len(HeldAt(LabelBody)) = 4
  /\ HeldAt(LabelBody)[1].left /\ HeldAt(LabelBody)[1].block.lines = <<TextY>>
  /\ HeldAt(LabelBody)[2] = Right(LabelB)
  /\ HeldAt(LabelBody)[3].left /\ HeldAt(LabelBody)[3].block.lines = <<TextZ>>
  /\ HeldAt(LabelBody)[4].left /\ HeldAt(LabelBody)[4].block.lines = <<TextX>>
  /\ HeldAt(Root) = <<Right(LabelBody)>>

\* --------------------------------------------------------------------------
\* C29
\* --------------------------------------------------------------------------

\* A text without its leading spaces.
Unindented(t) == Drop(t, LeadingSpaces(t))

\* The positions of the directives read.
DirectivePositions == {p \in Positions : IsDirective(LineAt(p))}

\* C29: conservation of lines. No input in which every label is declared at
\* most once makes tangle_output panic, and when it has returned: the anchor
\* map is empty; every output line that is not a provenance header is a kept
\* line behind some spaces; each kept line comes out as often as it was
\* read; no directive line comes out; and without a comment leader the
\* output has as many lines as kept lines were read.
C29_Conservation ==
  DeclaredAtMostOnce =>
    /\ pc # "panicked"
    /\ pc = "done" =>
         LET out == BlockLines
         IN  /\ anchors = <<>>
             /\ \A i \in 1..Len(out) :
                  \E p \in KeptPositions : \E n \in 0..Len(out[i]) :
                    out[i] = Spaces(n) \o LineAt(p).text
             /\ \A p \in KeptPositions :
                  Cardinality({i \in 1..Len(out) :
                                 Unindented(out[i]) = Unindented(LineAt(p).text)})
                    = Cardinality({q \in KeptPositions :
                                     Unindented(LineAt(q).text) = Unindented(LineAt(p).text)})
             /\ \A i \in 1..Len(out) : \A d \in DirectivePositions :
                  Unindented(out[i]) # Unindented(LineAt(d).text)
             /\ Len(out) = Cardinality(KeptPositions)
             /\ ~options.comment.some => lines = out

\* The routed input with ##[after(Body)] on line 4 has been tangled without
\* a comment leader: its nine lines leave the four kept lines x, y, z, w and
\* an empty anchor map.
C29_Witness ==
  /\ pc = "done"
  /\ ~options.comment.some
  /\ Len(inputs) = 1 /\ Len(inputs[1].lines) = Len(RoutedLines)
  /\ inputs[1].lines[4] = OkLine(TextAfter(LabelBody))
  /\ inputs[1].lines[8] = OkLine(TextAfter(LabelB))
  /\ Cardinality(DirectivePositions) = 5
  /\ anchors = <<>>
  /\ Len(lines) = 4

\* --------------------------------------------------------------------------
\* C26
\* --------------------------------------------------------------------------

\* The kinds of the tokens: the operator for an AnchorOp, the type otherwise.
Kinds(tokens) ==
  [i \in 1..Len(tokens) |->
     IF tokens[i].type = "AnchorOp" THEN tokens[i].op ELSE tokens[i].type]

\* The four token streams of the grammar.
AnchorForms ==
  { <<"AnchorStart", "Insert", "AnchorEnd">>,
    <<"AnchorStart", "Before", "AnchorOpArg", "AnchorEnd">>,
    <<"AnchorStart", "After", "AnchorOpArg", "AnchorEnd">>,
    <<"AnchorStart", "Label", "AnchorOpArg", "AnchorEnd">> }

\* The whole text lexes to one of the four token streams.
IsAnchorForm(t) ==
  lex_tokens(t).ok /\ Kinds(lex_tokens(t).tokens) \in AnchorForms

\* C26: parse succeeds exactly when the whole token stream of its argument
\* is one of Start Insert End, Start Before Arg End, Start After Arg End,
\* Start Label Arg End.
C26_ExactForm ==
  pc = "parsed" => (stack[1].ok <=> IsAnchorForm(given_text))

\* --------------------------------------------------------------------------
\* C27
\* --------------------------------------------------------------------------

\* The first position of character c in text t, 0 when t has none.
FirstOf(t, c) ==
  IF \E i \in 1..Len(t) : t[i] = c
  THEN CHOOSE i \in 1..Len(t) : t[i] = c /\ \A j \in 1..(i - 1) : t[j] # c
  ELSE 0

\* The argument of a directive as it is written: the text from the first
\* opening parenthesis to the first closing one, both included.
ArgumentText(t) == SubSeq(t, FirstOf(t, "("), FirstOf(t, ")"))

\* Directives to compare a parsed anchor with: the arguments (b), ( b) and
\* (Body) under each operator that takes one.
ComparedDirectives ==
  UNION { {TextLabel(l), TextBefore(l), TextAfter(l)} :
            l \in {LabelB, <<"(", " ", "b", ")">>, LabelBody} }

\* C27: the label of a successfully parsed Before, After or Label anchor is
\* the argument as written, parentheses included: it has at least three
\* characters, the first "(" and the last ")", and it equals the label of
\* another directive exactly when the two arguments are written alike.
C27_LiteralLabel ==
  (pc = "parsed" /\ stack[1].ok /\ stack[1].anchor.op # "Insert") =>
    LET label == stack[1].anchor.label
    IN  /\ label = ArgumentText(given_text)
        /\ Len(label) >= 3
        /\ label[1] = "(" /\ label[Len(label)] = ")"
        /\ \A i \in 2..(Len(label) - 1) : label[i] \in ArgChars
        /\ \A d \in ComparedDirectives :
             /\ parse(d).ok
             /\ (parse(d).anchor.label = label)
                  <=> (ArgumentText(d) = ArgumentText(given_text))

\* ##[before( b)] has been parsed: the label is ( b), blank and parentheses
\* included, which is not the label (b).
C27_Witness ==
  /\ pc = "parsed"
  /\ given_text = <<"#", "#", "[", "b", "e", "f", "o", "r", "e", "(", " ", "b", ")", "]">>
  /\ stack[1].ok
  /\ stack[1].anchor = AnchorValue("Before", <<"(", " ", "b", ")">>)

\* --------------------------------------------------------------------------
\* C28
\* --------------------------------------------------------------------------

\* line[i..j] is "##[", one or more characters other than "]", and "]".
IsCandidate(line, i, j) ==
  /\ i >= 1 /\ i + 4 <= j /\ j <= Len(line)
  /\ SubSeq(line, i, i + 2) = <<"#", "#", "[">>
  /\ line[j] = "]"
  /\ \A k \in (i + 3)..(j - 1) : line[k] # "]"

\* The places <<i, j>> of the substrings of that form.
CandidateSpans(line) ==
  {sp \in (1..Len(line)) \X (1..Len(line)) : IsCandidate(line, sp[1], sp[2])}

\* The place of the leftmost one.
FirstSpan(line) ==
  CHOOSE sp \in CandidateSpans(line) : \A o \in CandidateSpans(line) : sp[1] <= o[1]

\* C28: might_be_anchor returns the leftmost substring of the line of the
\* form "##[", one or more characters other than "]", "]" and nothing when
\* the line has none, as for "##[]" and "#[macro_use]"; process_block_lines
\* parses that substring and no other one: the line is a directive when it
\* parses, a malformed anchor when it does not.
C28_FirstCandidate ==
  LET spans == CandidateSpans(given_text)
      first == SubSeq(given_text, FirstSpan(given_text)[1], FirstSpan(given_text)[2])
  IN  /\ pc = "matched" =>
           /\ stack[1].found <=> spans # {}
           /\ spans # {} => stack[1].text = first
                             /\ stack[1].start = FirstSpan(given_text)[1]
           /\ given_text \in { <<"#", "#", "[", "]">>,
                                <<"#", "[", "m", "a", "c", "r", "o", "_", "u", "s", "e", "]">> }
                => ~stack[1].found
      /\ pc = "processed" =>
           IF spans = {} THEN stack[1].kind = "ErrNone"
           ELSE IF parse(first).ok
                THEN stack[1].kind = "Ok" /\ stack[1].anchor = parse(first).anchor
                ELSE stack[1].kind = "ErrSome" /\ stack[1].found = first

\* The line ##[x]##[insert] has been processed: its first candidate ##[x]
\* does not parse and the line is a malformed anchor, although ##[insert]
\* follows.
C28_Witness ==
  /\ pc = "processed"
  /\ given_text = <<"#", "#", "[", "x", "]">> \o TextInsert
  /\ Cardinality(CandidateSpans(given_text)) = 2
  /\ stack[1].kind = "ErrSome"
  /\ stack[1].found = <<"#", "#", "[", "x", "]">>

\* --------------------------------------------------------------------------
\* C31
\* --------------------------------------------------------------------------

\* The positions of the Before and After directives on the label l.
RoutingsTo(l) == DirectivesOf("Before", l) \cup DirectivesOf("After", l)

\* Every block held by an anchor was read in a stream behind a Before or
\* After directive of that stream on the anchor's label.
RoutedInOwnStream ==
  \A l \in DOMAIN anchors : \A b \in BlocksOf(HeldAt(l)) :
    \E d \in RoutingsTo(l) : d[1] = StreamOf(b) /\ d[2] <= b.lineno

\* C31: the directive state belongs to one stream. Opening a stream sets the
\* state to Insert with an empty pending section and an empty block; the end
\* of a stream attaches the pending section and the block read last to the
\* target of the state then in force; and no anchor ever holds a line of a
\* stream that has no Before or After directive on it ahead of the line.
C31_StatePerStream ==
  /\ [](pc \in {"inputs", "lines"} => RoutedInOwnStream)
  /\ [][ /\ (pc = "inputs" /\ pc' = "lines") =>
             /\ state' = TargetInsert
             /\ Held(heap', tangled_section') = <<>>
             /\ block'.lines = <<>>
             /\ Held(heap', tangled') = Held(heap, tangled)
             /\ \A l \in DOMAIN anchors : HeldAtNext(l) = HeldAt(l)
         /\ (pc = "lines" /\ pc' = "inputs") =>
             LET t == IF state.target = "Insert" THEN Root ELSE state.name
             IN  /\ HeldAtNext(t) = IF state.target = "Before"
                                    THEN PendingUnit \o HeldAt(t)
                                    ELSE HeldAt(t) \o PendingUnit
                 /\ \A u \in Places \ {t} : HeldAtNext(u) = HeldAt(u)
     ]_vars

\* Stream A ended in state After(Body) with the block x, y not yet pushed,
\* which went to Body; stream B is z, w, which went to the root behind the
\* reference to Body.
C31_Witness ==
  /\ pc = "inputs"
  /\ Len(inputs) = 2
  /\ inputs[1].lines = <<OkLine(TextLabel(LabelBody)), OkLine(TextAfter(LabelBody)),
                         OkLine(TextX), OkLine(TextY)>>
  /\ inputs[2].lines = <<OkLine(TextZ), OkLine(TextW)>>
  /\ Len(HeldAt(LabelBody)) = 1
  /\ HeldAt(LabelBody)[1].block.lines = <<TextX, TextY>>
  /\ Len(HeldAt(Root)) = 2
  /\ HeldAt(Root)[1] = Right(LabelBody)
  /\ HeldAt(Root)[2].block.lines = <<TextZ, TextW>>
  /\ HeldAt(Root)[2].block.file = Names[2]

\* --------------------------------------------------------------------------
\* C32
\* --------------------------------------------------------------------------

\* C32: all through the tangle pass the label of a state Before(l) or
\* After(l) is a key of the anchor map, and no step of the tangle pass ends
\* in the panic of emplace_section!, whether labels are declared twice or
\* directives name labels that are not declared.
C32_TargetDeclared ==
  /\ [](pc \in {"inputs", "lines"} =>
          (state.target \in {"Before", "After"} => state.name \in DOMAIN anchors))
  /\ [][ (pc = "inputs" \/ pc = "lines") => pc' # "panicked" ]_vars

\* Body has been declared a second time in state After(Body) and a second
\* After(Body) has emplaced the section with the reference to Body: the
\* state is After(Body), Body is in the map and refers to itself.
C32_Witness ==
  /\ pc = "lines"
  /\ state = TargetAfter(LabelBody)
  /\ Cardinality(DirectivesOf("Label", LabelBody)) = 2
  /\ Cardinality(DirectivesOf("After", LabelBody)) = 2
  /\ LabelBody \in DOMAIN anchors
  /\ Referenced(HeldAt(LabelBody)) = {LabelBody}

\* --------------------------------------------------------------------------
\* C33
\* --------------------------------------------------------------------------

\* The labels declared in the input: the keys of the anchor map when
\* assembly begins.
DeclaredLabels == {l \in Labels : DirectivesOf("Label", l) # {}}

\* The number of anchor-map entries removed so far.
Resolved == Cardinality(DeclaredLabels) - Cardinality(DOMAIN anchors)

\* What is left to do for assembly: the knots not yet popped count twice,
\* the calls not yet returned once.
LeftToDo == 2 * Cardinality(DOMAIN heap.nodes) + Len(stack)

\* C33: output assembly comes to an end on every forest, those of inputs
\* that declare a label twice and those in which an anchor refers to itself
\* included. Every nested call of collect_anchor_lines follows the removal
\* of one entry of the anchor map, so that the calls in progress are at most
\* one more than the entries removed and the entries removed at most the
\* labels declared; every step of assembly leaves less to do; and assembly,
\* once begun, returns or stops at the expect of a reference whose entry is
\* gone.
C33_AssemblyTerminates ==
  /\ [](pc \in {"collect", "done", "panicked"} =>
          /\ Resolved \in 0..Cardinality(DeclaredLabels)
          /\ Len(stack) <= 1 + Resolved)
  /\ [][ pc = "collect" =>
           /\ Len(stack') > Len(stack) =>
                /\ Len(stack') = Len(stack) + 1
                /\ Cardinality(DOMAIN anchors') = Cardinality(DOMAIN anchors) - 1
                /\ DOMAIN anchors' \subseteq DOMAIN anchors
           /\ pc' = "collect" => LeftToDo' < LeftToDo
     ]_vars
  /\ (pc = "collect" ~> pc \in {"done", "panicked"})

\* The redeclaring input has been tangled and assembly has come to its end:
\* Body was declared twice, its one entry was removed at the reference in
\* the root, and the reference to Body among Body's own children found no
\* entry.
C33_Witness ==
  /\ pc = "panicked"
  /\ Len(inputs) = 1 /\ Len(inputs[1].lines) = Len(RedeclaringLines)
  /\ Cardinality(DirectivesOf("Label", LabelBody)) = 2
  /\ anchors = <<>>
  /\ Resolved = 1
  /\ Len(stack) = 2

\* --------------------------------------------------------------------------
\* C34
\* --------------------------------------------------------------------------

\* The addresses met from p through the to_b links; Null marks a link to a
\* node that is not live or a walk longer than the heap.
RECURSIVE ChainFrom(_, _, _)
ChainFrom(h, p, fuel) ==
  IF p = Null THEN <<>>
  ELSE IF p \notin DOMAIN h.nodes \/ fuel = 0 THEN <<Null>>
  ELSE <<p>> \o ChainFrom(h, h.nodes[p].to_b, fuel - 1)

\* The nodes of list l, front to back.
Chain(h, l) == ChainFrom(h, l.front, h.next)

\* The set of the nodes of list l.
NodesOf(h, l) == {Chain(h, l)[i] : i \in 1..Len(Chain(h, l))}

\* List l is a well-formed doubly-linked chain of live nodes.
WellFormed(h, l) ==
  LET c == Chain(h, l)
  IN  /\ (l.front = Null) <=> (l.back = Null)
      /\ (l.back = Null) <=> (l.len = 0)
      /\ \A i \in 1..Len(c) : c[i] \in DOMAIN h.nodes
      /\ \A i, j \in 1..Len(c) : c[i] = c[j] => i = j
      /\ Len(c) = l.len
      /\ l.len > 0 =>
           /\ c[1] = l.front /\ c[Len(c)] = l.back
           /\ h.nodes[l.front].to_f = Null
           /\ h.nodes[l.back].to_b = Null
      /\ \A i \in 1..Len(c) :
           h.nodes[c[i]].to_b # Null => h.nodes[h.nodes[c[i]].to_b].to_f = c[i]
      /\ \A i \in 1..Len(c) :
           h.nodes[c[i]].to_f # Null => h.nodes[h.nodes[c[i]].to_f].to_b = c[i]

\* C34: after any sequence of push, pop, append, from_iter and into_iter
\* operations on two lists each list is a well-formed doubly-linked chain:
\* front, back and len are empty together; the front node has no to_f link
\* and the back node no to_b link; the to_f link of a to_b successor leads
\* back; no node is in both lists; every live node is in one of them, so
\* that nothing popped can be reached and dropping the two lists frees every
\* node, each once.
C34_WellFormedLists ==
  /\ WellFormed(heap, tangled)
  /\ WellFormed(heap, tangled_section)
  /\ NodesOf(heap, tangled) \cap NodesOf(heap, tangled_section) = {}
  /\ NodesOf(heap, tangled) \cup NodesOf(heap, tangled_section) = DOMAIN heap.nodes
  /\ drop_list(heap, tangled).nodes
       = [q \in NodesOf(heap, tangled_section) |-> heap.nodes[q]]
  /\ drop_list(drop_list(heap, tangled), tangled_section).nodes = <<>>

\* Four nodes have been allocated, one has been popped, and an append has
\* joined the three that are left in one list.
C34_Witness ==
  /\ pc \in {"append_front", "append_back"}
  /\ heap.next = MaxNodes + 1
  /\ Cardinality(DOMAIN heap.nodes) = 3
  /\ tangled.len = 3
  /\ tangled_section = List_new
  /\ heap.nodes[tangled.front].to_b # tangled.back

=============================================================================
